---- MODULE Spec2Model ----
(***************************************************************************)
(* A model of the IAQ logic engine (src/src/logic_engine.py): the          *)
(* configuration check done at construction, the one-shot PSI advisory,    *)
(* the per-timestamp BMS filter gate, the per-sensor alert state machine,  *)
(* the branch router and the branch resolvers A-D, and the event log.      *)
(*                                                                         *)
(* Timestamps are minutes counted from the first one.  A row of a table    *)
(* is a function from the table's columns to cell values; a cell is a      *)
(* number or None (a polars null).  A Python exception that leaves         *)
(* run_simulation is modelled by pc = "error", with the kind in error.     *)
(***************************************************************************)
EXTENDS Integers, Sequences, FiniteSets, TLC

(***************************************************************************)
(* Bounds of the model.                                                    *)
(***************************************************************************)
\* number of minutes a run may span: its timestamps are 0..MaxTicks-1
MaxTicks == 5
\* most minutes between two consecutive timestamps of the IAQ table
MaxGap == 2
\* most timestamps of a run at which the AHU row has a tripped filter status
MaxAlarms == 1

(***************************************************************************)
(* The configuration (values of src/tests/conftest.py).                    *)
(***************************************************************************)
outdoor_co2_ppm == 415
sensor_reading_default == 0
trig_co2_ppm_above_outdoor == 500
trig_tvoc_ug_m3 == 500
trig_pm2_5_ug_m3 == 25
trig_pm10_ug_m3 == 50
trig_hcho_ug_m3 == 100
trig_rh_percent_max == 70
temp_c_min == 23
temp_c_max == 25
\* thresholds.triggering.persistence_minutes, the debounce window in
\* minutes: a window of 2 keeps the runs short (the tests' configuration
\* sets 10)
persistence_minutes == 2
pad_increase_percent == 5
norm_co2_ppm_above_outdoor == 400
norm_tvoc_ug_m3 == 400
norm_pm2_5_ug_m3 == 20
norm_pm10_ug_m3 == 40
norm_hcho_ug_m3 == 80
norm_rh_percent_max == 65
unhealthy_min == 101
unhealthy_max == 200
very_unhealthy_min == 201
branch_b_vav_flow_increase_pct == 10
branch_b_chw_valve_increase_pct == 5
branch_c_vav_flow_decrease_pct == 10
branch_c_chw_valve_decrease_pct == 5
branch_d_chw_valve_increase_pct == 10

\* Python's None: an absent cell (polars null), an unset alert_start_time
None == -1

\* the timestamp "N/A" of a record that belongs to no timestamp
NA == -2

\* thresholds.triggering.max_dilution_cycles of the configurations: the
\* tests' value, and a configuration that allows no cycle
CycleLimits == {0, 3}

\* thresholds.triggering.max_dilution_cycles of the configuration
VARIABLE max_dilution_cycles

\* thresholds.psi of the configuration
VARIABLE psi_thresholds

\* sensor ids of the IAQ table; "047" is the mapped one of the tests
Sensors == {"047", "099"}

\* config["sensor_to_vav_map"] as written in the configuration file
ConfiguredVavMap == [s \in {"047"} |-> "vav_01"]

\* the key paths of the configuration data model
RequiredSections ==
    << "data_files", "api_urls", "parameters", "defaults",
       "thresholds", "sensor_to_vav_map", "actions" >>

RequiredTriggers ==
    << "co2_ppm_above_outdoor", "tvoc_ug_m3", "pm2_5_ug_m3", "pm10_ug_m3",
       "hcho_ug_m3", "rh_percent_max", "temp_c_min", "temp_c_max",
       "persistence_minutes", "pad_increase_percent", "max_dilution_cycles" >>

RequiredNorms ==
    << "co2_ppm_above_outdoor", "tvoc_ug_m3", "pm2_5_ug_m3",
       "pm10_ug_m3", "hcho_ug_m3", "rh_percent_max" >>

RequiredPsi == << "unhealthy_min", "unhealthy_max", "very_unhealthy_min" >>

Range(q) == { q[i] : i \in DOMAIN q }

\* every key path of the configuration file the engine is given
ConfigPaths ==
    { <<s>> : s \in Range(RequiredSections) }
    \cup { <<"api_urls", "psi">>,
           <<"parameters", "outdoor_co2_ppm">>,
           <<"parameters", "enable_bms_filter_check">>,
           <<"defaults", "sensor_reading_default">>,
           <<"thresholds", "triggering">>,
           <<"thresholds", "normalization">>,
           <<"thresholds", "psi">>,
           <<"sensor_to_vav_map", "047">>,
           <<"actions", "branch_b">>,
           <<"actions", "branch_c">>,
           <<"actions", "branch_d">>,
           <<"actions", "branch_b", "vav_flow_increase_pct">>,
           <<"actions", "branch_b", "chw_valve_increase_pct">>,
           <<"actions", "branch_c", "vav_flow_decrease_pct">>,
           <<"actions", "branch_c", "chw_valve_decrease_pct">>,
           <<"actions", "branch_d", "chw_valve_increase_pct">> }
    \cup { <<"thresholds", "triggering", k>> : k \in Range(RequiredTriggers) }
    \cup { <<"thresholds", "normalization", k>> : k \in Range(RequiredNorms) }
    \cup { <<"thresholds", "psi", k>> : k \in Range(RequiredPsi) }

\* key in mapping: the path is in a configuration that lacks the paths of
\* `missing` (a key is gone when it or a section above it is gone)
Has(missing, path) ==
    \A k \in 1..Len(path) : SubSeq(path, 1, k) \notin missing

\* the first element of sequence q that satisfies Bad, as a one-element
\* sequence; <<>> when there is none (a for loop that raises at the first hit)
FirstMissing(missing, prefix, q) ==
    LET bad == { i \in DOMAIN q : ~Has(missing, prefix \o <<q[i]>>) }
    IN  IF bad = {} THEN <<>>
        ELSE << q[CHOOSE i \in bad : \A j \in bad : i <= j] >>

\* IAQLogicEngine._validate_config: <<>> when the configuration passes, else
\* what the ValueError names
_validate_config(missing) ==
    LET sec == FirstMissing(missing, <<>>, RequiredSections)
        trg == FirstMissing(missing, <<"thresholds", "triggering">>, RequiredTriggers)
        nrm == FirstMissing(missing, <<"thresholds", "normalization">>, RequiredNorms)
        psi == FirstMissing(missing, <<"thresholds", "psi">>, RequiredPsi)
    IN  IF sec # <<>> THEN <<"Section">> \o sec
        ELSE IF ~Has(missing, <<"api_urls", "psi">>) THEN <<"api_urls", "psi">>
        ELSE IF ~Has(missing, <<"parameters", "outdoor_co2_ppm">>)
            THEN <<"parameters", "outdoor_co2_ppm">>
        ELSE IF ~Has(missing, <<"defaults", "sensor_reading_default">>)
            THEN <<"defaults", "sensor_reading_default">>
        ELSE IF ~Has(missing, <<"thresholds", "triggering">>)
                \/ ~Has(missing, <<"thresholds", "normalization">>)
            THEN <<"thresholds", "triggering or normalization">>
        ELSE IF trg # <<>> THEN <<"Trigger threshold">> \o trg
        ELSE IF nrm # <<>> THEN <<"Normalization threshold">> \o nrm
        ELSE IF ~Has(missing, <<"thresholds", "psi">>) THEN <<"thresholds", "psi">>
        ELSE IF psi # <<>> THEN <<"PSI threshold">> \o psi
        ELSE IF ~Has(missing, <<"actions", "branch_b">>)
                \/ ~Has(missing, <<"actions", "branch_c">>)
            THEN <<"actions", "branch_b or branch_c">>
        ELSE <<>>

(***************************************************************************)
(* Rows, cells and the event log.                                          *)
(***************************************************************************)
\* dict.get(key, default) on a row: the default only when the column is absent
Get(row, key, default) == IF key \in DOMAIN row THEN row[key] ELSE default

\* str(reasons) of a list of reasons; the empty string is EmptyStr
Str(reasons) == << reasons >>

EmptyStr == << >>

Details(text, ids, args) == [text |-> text, ids |-> ids, args |-> args]

\* the record _log_action appends
LogRecord(ts, sensor_id, event, details, reasons, cycle) ==
    [ timestamp |-> ts, sensor_id |-> sensor_id, event |-> event,
      details |-> details, reasons |-> reasons, dilution_cycle |-> cycle ]

\* a log that takes the new record at its head
_log_action_at_head(log, ts, sensor_id, event, details, reasons, cycle) ==
    << LogRecord(ts, sensor_id, event, details, reasons, cycle) >> \o log

\* IAQLogicEngine._log_action
_log_action(log, ts, sensor_id, event, details, reasons, cycle) ==
    Append(log, LogRecord(ts, sensor_id, event, details, reasons, cycle))

\* a first state with the fire flag already set
NewSensorStateFired ==
    [ is_triggered |-> FALSE, alert_start_time |-> None, has_fired |-> TRUE,
      dilution_cycle_count |-> 0, alert_type |-> "None" ]

\* the state a sensor gets at its first sighting
NewSensorState ==
    [ is_triggered |-> FALSE, alert_start_time |-> None, has_fired |-> FALSE,
      dilution_cycle_count |-> 0, alert_type |-> "None" ]

pollutant_triggers == {"co2", "tvoc", "pm2_5", "pm10", "hcho"}

\* the columns whose cell is compared without a None test
ComparedColumns == pollutant_triggers \cup {"humidity"}

(***************************************************************************)
(* The threshold checks on one sensor row.                                 *)
(***************************************************************************)
TriggerThreshold(key) ==
    CASE key = "co2" -> outdoor_co2_ppm + trig_co2_ppm_above_outdoor
      [] key = "tvoc" -> trig_tvoc_ug_m3
      [] key = "pm2_5" -> trig_pm2_5_ug_m3
      [] key = "pm10" -> trig_pm10_ug_m3
      [] key = "hcho" -> trig_hcho_ug_m3
      [] key = "humidity" -> trig_rh_percent_max

NormThreshold(key) ==
    CASE key = "co2" -> outdoor_co2_ppm + norm_co2_ppm_above_outdoor
      [] key = "tvoc" -> norm_tvoc_ug_m3
      [] key = "pm2_5" -> norm_pm2_5_ug_m3
      [] key = "pm10" -> norm_pm10_ug_m3
      [] key = "hcho" -> norm_hcho_ug_m3
      [] key = "humidity" -> norm_rh_percent_max

\* the order in which the checks read the columns
CheckOrder == << "co2", "tvoc", "pm2_5", "pm10", "hcho", "humidity" >>

\* the reason _check_iaq_triggers appends for a column
ReasonName(key) ==
    CASE key = "humidity" -> "rh"
      [] key = "temperature" -> "temp"
      [] OTHER -> key

\* one `if value > threshold` of _check_iaq_triggers; temperature is
\* compared only when it is not None
Violated(row, key) ==
    IF key = "temperature"
    THEN LET temp == Get(row, "temperature", None)
         IN  temp # None /\ (temp < temp_c_min \/ temp > temp_c_max)
    ELSE Get(row, key, sensor_reading_default) > TriggerThreshold(key)

\* IAQLogicEngine._check_iaq_triggers: comparing a None cell raises TypeError
_check_iaq_triggers(row) ==
    IF \E key \in ComparedColumns : Get(row, key, sensor_reading_default) = None
    THEN [ err |-> "TypeError", reasons |-> << >> ]
    ELSE LET hit == SelectSeq(CheckOrder \o << "temperature" >>,
                              LAMBDA key : Violated(row, key))
         IN  [ err |-> "none",
               reasons |-> [ i \in DOMAIN hit |-> ReasonName(hit[i]) ] ]

\* IAQLogicEngine._check_for_normalization: an `and` chain over the five
\* pollutants, left to right; "True", "False" or "TypeError"
_check_for_normalization(row) ==
    LET stop == { i \in 1..5 :
                    \/ Get(row, CheckOrder[i], sensor_reading_default) = None
                    \/ ~(Get(row, CheckOrder[i], sensor_reading_default)
                            < NormThreshold(CheckOrder[i])) }
    IN  IF stop = {} THEN "True"
        ELSE LET i == CHOOSE i \in stop : \A j \in stop : i <= j
             IN  IF Get(row, CheckOrder[i], sensor_reading_default) = None
                 THEN "TypeError" ELSE "False"

\* a comfort check that takes an absent temperature for a normal one
_check_for_comfort_normalization_absent_ok(row) ==
    LET temp == Get(row, "temperature", None)
    IN  temp = None \/ (temp_c_min <= temp /\ temp <= temp_c_max)

\* IAQLogicEngine._check_for_comfort_normalization
_check_for_comfort_normalization(row) ==
    LET temp == Get(row, "temperature", None)
    IN  temp # None /\ temp_c_min <= temp /\ temp <= temp_c_max

\* IAQLogicEngine._check_for_dehumid_normalization: the humidity comparison
\* is evaluated first
_check_for_dehumid_normalization(row) ==
    LET rh == Get(row, "humidity", sensor_reading_default)
    IN  IF rh = None THEN "TypeError"
        ELSE IF _check_for_comfort_normalization(row) /\ rh < norm_rh_percent_max
        THEN "True" ELSE "False"

(***************************************************************************)
(* The branch resolvers.  Each takes the sensor's state st and the log and *)
(* gives [st, log, err]: the state and the log as the resolver leaves them *)
(* and the exception it raises ("none" when it returns).                   *)
(***************************************************************************)
Result(st, log, err) == [ st |-> st, log |-> log, err |-> err ]

\* self.sensor_to_vav_map of a configuration that lacks `missing`
sensor_to_vav_map(missing) ==
    [ s \in { x \in DOMAIN ConfiguredVavMap :
                Has(missing, << "sensor_to_vav_map", x >>) }
        |-> ConfiguredVavMap[s] ]

\* the single row of a filtered table (DataFrame.select(...).item())
TheRow(rows) == CHOOSE r \in rows : TRUE

\* a cycle-limit guard that lets one cycle too many through (> for >=)
CycleLimitReachedOffByOne(st) == st.dilution_cycle_count > max_dilution_cycles

\* a cycle-limit guard that stops every resolver
CycleLimitAlwaysReached(st) == TRUE

\* a cycle-limit guard that never stops a resolver
CycleLimitNeverReached(st) == FALSE

\* the cycle-limit guard of the four resolvers (lines 201, 238, 267, 296)
CycleLimitReached(st) == st.dilution_cycle_count >= max_dilution_cycles

\* a resolver that leaves the counter as it is
NextCycleWithoutIncrement(st) == st

\* current_state["dilution_cycle_count"] += 1 (lines 205, 241, 270, 299)
NextCycle(st) == [st EXCEPT !.dilution_cycle_count = @ + 1]

\* IAQLogicEngine._execute_branch_a
_execute_branch_a(ts, sensor_id, st, log, reasons, vav_rows, ahu_rows, missing) ==
    IF CycleLimitReached(st)
    THEN Result([st EXCEPT !.has_fired = TRUE],
                _log_action(log, ts, sensor_id, "Dilution Failed",
                    Details("Max cycles reached", << >>, << max_dilution_cycles >>),
                    Str(reasons), 0),
                "none")
    ELSE
    LET st1 == NextCycle(st)
        cycle == st1.dilution_cycle_count
        map == sensor_to_vav_map(missing)
    IN  IF sensor_id \notin DOMAIN map
        THEN Result(st1,
                _log_action(log, ts, sensor_id, "Branch A Skipped",
                    Details("No VAV mapping found", << >>, << >>), Str(reasons), cycle),
                "none")
        ELSE
        LET vav_id == map[sensor_id]
            log1 == _log_action(log, ts, sensor_id, "Dilution Cycle Started",
                        Details("Cycle # for VAV", << vav_id >>, << cycle >>),
                        Str(reasons), cycle)
        IN  IF vav_rows = {}
            THEN Result(st1,
                    _log_action(log1, ts, sensor_id, "Branch A Halted",
                        Details("VAV mapping exists, but no data found at this timestamp",
                                << vav_id >>, << >>), Str(reasons), cycle),
                    "none")
            ELSE IF TheRow(vav_rows).supflosp < TheRow(vav_rows).cmaxflo
            THEN Result(st1,
                    _log_action(log1, ts, sensor_id, "VAV Action",
                        Details("VAV airflow not at max. Setting to maximum",
                                << vav_id >>, << >>), Str(reasons), cycle),
                    "none")
            \* .item() of an empty selection raises ValueError
            ELSE IF ahu_rows = {}
            THEN Result(st1, log1, "ValueError")
            ELSE IF TheRow(ahu_rows).fad_fb < TheRow(ahu_rows).fad_max_stpt
            THEN Result(st1,
                    _log_action(log1, ts, sensor_id, "PAD Action",
                        Details("VAV at max. PAD/FAD not at max. Increasing opening by %",
                                << >>, << pad_increase_percent >>), Str(reasons), cycle),
                    "none")
            ELSE Result(st1,
                    _log_action(log1, ts, sensor_id, "Alert",
                        Details("VAV and PAD/FAD are both at maximum. Sending alert to FM team",
                                << >>, << >>), Str(reasons), cycle),
                    "none")

\* a flow test of Branch B that takes a setpoint at the maximum as below it
CoolingFlowBelowMaxOrAt(row) == row.supflosp <= row.cmaxflo

\* if vav_current_setpoint < vav_max_setpoint (line 254)
CoolingFlowBelowMax(row) == row.supflosp < row.cmaxflo

\* IAQLogicEngine._execute_branch_b
_execute_branch_b(ts, sensor_id, st, log, reasons, vav_rows, missing) ==
    IF CycleLimitReached(st)
    THEN Result(st,
                _log_action(log, ts, sensor_id, "Cooling Failed",
                    Details("Max cycles reached", << >>, << max_dilution_cycles >>),
                    Str(reasons), 0),
                "none")
    ELSE
    LET st1 == NextCycle(st)
        cycle == st1.dilution_cycle_count
        map == sensor_to_vav_map(missing)
    IN  IF sensor_id \notin DOMAIN map
        THEN Result(st1,
                _log_action(log, ts, sensor_id, "Branch B Skipped",
                    Details("No VAV mapping found", << >>, << >>), Str(reasons), cycle),
                "none")
        ELSE
        LET vav_id == map[sensor_id]
            log1 == _log_action(log, ts, sensor_id, "Cooling Cycle Started",
                        Details("Cycle # for VAV", << vav_id >>, << cycle >>),
                        Str(reasons), cycle)
        IN  IF vav_rows = {}
            THEN Result(st1,
                    _log_action(log1, ts, sensor_id, "Branch B Halted",
                        Details("VAV mapping exists, but no data found at this timestamp",
                                << vav_id >>, << >>), Str(reasons), cycle),
                    "none")
            ELSE IF CoolingFlowBelowMax(TheRow(vav_rows))
            THEN IF ~Has(missing, << "actions", "branch_b", "vav_flow_increase_pct" >>)
                 THEN Result(st1, log1, "KeyError")
                 ELSE Result(st1,
                        _log_action(log1, ts, sensor_id, "VAV Action (Cooling)",
                            Details("VAV not at max. Increasing flow setpoint by %",
                                    << vav_id >>, << branch_b_vav_flow_increase_pct >>),
                            Str(reasons), cycle),
                        "none")
            ELSE IF ~Has(missing, << "actions", "branch_b", "chw_valve_increase_pct" >>)
                 THEN Result(st1, log1, "KeyError")
                 ELSE Result(st1,
                        _log_action(log1, ts, sensor_id, "CHW Valve Action (Cooling)",
                            Details("VAV at max. Increasing Chilled Water Valve position by %",
                                    << >>, << branch_b_chw_valve_increase_pct >>),
                            Str(reasons), cycle),
                        "none")

\* a flow test of Branch C that takes a setpoint at the minimum as above it
WarmingFlowAboveMinOrAt(row) == row.supflosp >= row.ocmnc_sp

\* if vav_current_setpoint > vav_min_setpoint (line 283)
WarmingFlowAboveMin(row) == row.supflosp > row.ocmnc_sp

\* IAQLogicEngine._execute_branch_c
_execute_branch_c(ts, sensor_id, st, log, reasons, vav_rows, missing) ==
    IF CycleLimitReached(st)
    THEN Result(st,
                _log_action(log, ts, sensor_id, "Warming Failed",
                    Details("Max cycles reached", << >>, << max_dilution_cycles >>),
                    Str(reasons), 0),
                "none")
    ELSE
    LET st1 == NextCycle(st)
        cycle == st1.dilution_cycle_count
        map == sensor_to_vav_map(missing)
    IN  IF sensor_id \notin DOMAIN map
        THEN Result(st1,
                _log_action(log, ts, sensor_id, "Branch C Skipped",
                    Details("No VAV mapping found", << >>, << >>), Str(reasons), cycle),
                "none")
        ELSE
        LET vav_id == map[sensor_id]
            log1 == _log_action(log, ts, sensor_id, "Warming Cycle Started",
                        Details("Cycle # for VAV", << vav_id >>, << cycle >>),
                        Str(reasons), cycle)
        IN  IF vav_rows = {}
            THEN Result(st1,
                    _log_action(log1, ts, sensor_id, "Branch C Halted",
                        Details("VAV mapping exists, but no data found at this timestamp",
                                << vav_id >>, << >>), Str(reasons), cycle),
                    "none")
            ELSE IF WarmingFlowAboveMin(TheRow(vav_rows))
            THEN IF ~Has(missing, << "actions", "branch_c", "vav_flow_decrease_pct" >>)
                 THEN Result(st1, log1, "KeyError")
                 ELSE Result(st1,
                        _log_action(log1, ts, sensor_id, "VAV Action (Warming)",
                            Details("VAV not at min. Decreasing flow setpoint by %",
                                    << vav_id >>, << branch_c_vav_flow_decrease_pct >>),
                            Str(reasons), cycle),
                        "none")
            ELSE IF ~Has(missing, << "actions", "branch_c", "chw_valve_decrease_pct" >>)
                 THEN Result(st1, log1, "KeyError")
                 ELSE Result(st1,
                        _log_action(log1, ts, sensor_id, "CHW Valve Action (Warming)",
                            Details("VAV at min. Decreasing Chilled Water Valve position by %",
                                    << >>, << branch_c_chw_valve_decrease_pct >>),
                            Str(reasons), cycle),
                        "none")

\* a Branch D that needs a VAV mapping as Branches A, B and C do
_execute_branch_d_needs_mapping(ts, sensor_id, st, log, reasons, missing) ==
    IF CycleLimitReached(st)
    THEN Result(st,
                _log_action(log, ts, sensor_id, "Dehumidification Failed",
                    Details("Max cycles reached", << >>, << max_dilution_cycles >>),
                    Str(reasons), 0),
                "none")
    ELSE IF sensor_id \notin DOMAIN sensor_to_vav_map(missing)
    THEN Result(NextCycle(st),
                _log_action(log, ts, sensor_id, "Branch D Skipped",
                    Details("No VAV mapping found", << >>, << >>), Str(reasons),
                    st.dilution_cycle_count + 1),
                "none")
    ELSE Result(NextCycle(st),
                _log_action(
                    _log_action(log, ts, sensor_id, "Dehumidification Cycle Started",
                        Details("Cycle #", << >>, << st.dilution_cycle_count + 1 >>),
                        Str(reasons), st.dilution_cycle_count + 1),
                    ts, sensor_id, "CHW Valve Action (Dehumidifying)",
                    Details("Increasing Chilled Water Valve position by %",
                            << >>, << branch_d_chw_valve_increase_pct >>),
                    Str(reasons), st.dilution_cycle_count + 1),
                "none")

\* IAQLogicEngine._execute_branch_d
_execute_branch_d(ts, sensor_id, st, log, reasons, missing) ==
    IF CycleLimitReached(st)
    THEN Result(st,
                _log_action(log, ts, sensor_id, "Dehumidification Failed",
                    Details("Max cycles reached", << >>, << max_dilution_cycles >>),
                    Str(reasons), 0),
                "none")
    ELSE
    LET st1 == NextCycle(st)
        cycle == st1.dilution_cycle_count
        log1 == _log_action(log, ts, sensor_id, "Dehumidification Cycle Started",
                    Details("Cycle #", << >>, << cycle >>), Str(reasons), cycle)
    IN  IF ~Has(missing, << "actions", "branch_d", "chw_valve_increase_pct" >>)
        THEN Result(st1, log1, "KeyError")
        ELSE Result(st1,
                _log_action(log1, ts, sensor_id, "CHW Valve Action (Dehumidifying)",
                    Details("Increasing Chilled Water Valve position by %",
                            << >>, << branch_d_chw_valve_increase_pct >>),
                    Str(reasons), cycle),
                "none")

(***************************************************************************)
(* The router.                                                             *)
(***************************************************************************)
\* a router that sends a humidity at the maximum to no branch (> for >=)
RouteOfHumidStrict(reasons, rh, temp) ==
    IF \E i \in DOMAIN reasons : reasons[i] \in pollutant_triggers THEN "A"
    ELSE IF rh = None THEN "TypeError"
    ELSE IF rh < trig_rh_percent_max
         THEN IF temp = None THEN "TypeError"
              ELSE IF temp > temp_c_max THEN "B"
              ELSE IF temp < temp_c_min THEN "C"
              ELSE "Conflict"
    ELSE IF rh > trig_rh_percent_max THEN "D"
    ELSE "Conflict"

\* a router whose humidity tests are off by one (<= for <, > for >=)
RouteOfHumidityOffByOne(reasons, rh, temp) ==
    IF \E i \in DOMAIN reasons : reasons[i] \in pollutant_triggers THEN "A"
    ELSE IF rh = None THEN "TypeError"
    ELSE IF rh <= trig_rh_percent_max
         THEN IF temp = None THEN "TypeError"
              ELSE IF temp > temp_c_max THEN "B"
              ELSE IF temp < temp_c_min THEN "C"
              ELSE "Conflict"
    ELSE "D"

\* the branch the router takes: "A", "B", "C", "D", "Conflict", or the
\* TypeError of comparing None (humidity None, or temperature None when the
\* humidity is below the maximum)
RouteOf(reasons, rh, temp) ==
    IF \E i \in DOMAIN reasons : reasons[i] \in pollutant_triggers THEN "A"
    ELSE IF rh = None THEN "TypeError"
    ELSE IF rh < trig_rh_percent_max
         THEN IF temp = None THEN "TypeError"
              ELSE IF temp > temp_c_max THEN "B"
              ELSE IF temp < temp_c_min THEN "C"
              ELSE "Conflict"
    ELSE "D"

\* a router that stores pollutant whatever the branch
AlertTypeOfAlwaysPollutant(branch) == "pollutant"

\* the alert_type the router stores for a branch
AlertTypeOf(branch) ==
    CASE branch = "A" -> "pollutant"
      [] branch = "B" -> "comfort_hot"
      [] branch = "C" -> "comfort_cold"
      [] branch = "D" -> "comfort_humid"

\* a router that logs Branch B's text for Branch A
RoutingTextMisnamed(branch) ==
    CASE branch = "A" -> "Comfort alert (Too Hot). Routing to Branch B."
      [] branch = "B" -> "Comfort alert (Too Hot). Routing to Branch B."
      [] branch = "C" -> "Comfort alert (Too Cold). Routing to Branch C."
      [] branch = "D" -> "Comfort alert (Too Humid). Routing to Branch D."

\* the details of the "Branch Routing" record (lines 314, 325, 329, 333)
RoutingText(branch) ==
    CASE branch = "A" -> "Pollutant alert. Routing to Branch A."
      [] branch = "B" -> "Comfort alert (Too Hot). Routing to Branch B."
      [] branch = "C" -> "Comfort alert (Too Cold). Routing to Branch C."
      [] branch = "D" -> "Comfort alert (Too Humid). Routing to Branch D."

\* IAQLogicEngine._handle_persistent_alert
_handle_persistent_alert(ts, sensor_id, st, log, row, reasons, vav_rows, ahu_rows, missing) ==
    LET branch == RouteOf(reasons, Get(row, "humidity", sensor_reading_default),
                          Get(row, "temperature", None))
    IN  IF branch = "TypeError" THEN Result(st, log, "TypeError")
        ELSE IF branch = "Conflict"
        THEN Result(st,
                _log_action(log, ts, sensor_id, "Conflict Alert",
                    Details("Ambiguous comfort triggers. Sending alert to FM team",
                            << >>, << >>), Str(reasons), 0),
                "none")
        ELSE
        LET st1 == [st EXCEPT !.alert_type = AlertTypeOf(branch)]
            log1 == _log_action(log, ts, sensor_id, "Branch Routing",
                        Details(RoutingText(branch), << >>, << >>), Str(reasons), 0)
        IN  CASE branch = "A" ->
                   _execute_branch_a(ts, sensor_id, st1, log1, reasons,
                                     vav_rows, ahu_rows, missing)
              [] branch = "B" ->
                   _execute_branch_b(ts, sensor_id, st1, log1, reasons, vav_rows, missing)
              [] branch = "C" ->
                   _execute_branch_c(ts, sensor_id, st1, log1, reasons, vav_rows, missing)
              [] branch = "D" ->
                   _execute_branch_d(ts, sensor_id, st1, log1, reasons, missing)

(***************************************************************************)
(* One pass of the per-sensor loop body of run_simulation (lines 370-403)  *)
(* for a row of the sensor whose state is st.                              *)
(***************************************************************************)
\* a reset that leaves the fire flag set
ClearedStateStillFired ==
    [ is_triggered |-> FALSE, alert_start_time |-> None, has_fired |-> TRUE,
      dilution_cycle_count |-> 0, alert_type |-> "None" ]

\* line 390: the state a normalization resets the sensor to
ClearedState ==
    [ is_triggered |-> FALSE, alert_start_time |-> None, has_fired |-> FALSE,
      dilution_cycle_count |-> 0, alert_type |-> "None" ]

\* the recovery check of the stored alert_type: "True", "False", "TypeError"
RecoveryCheck(st, row) ==
    CASE st.alert_type = "pollutant" -> _check_for_normalization(row)
      [] st.alert_type \in {"comfort_hot", "comfort_cold"} ->
           IF _check_for_comfort_normalization(row) THEN "True" ELSE "False"
      [] st.alert_type = "comfort_humid" -> _check_for_dehumid_normalization(row)
      [] OTHER -> "False"

NormalizationText(alert_type) ==
    CASE alert_type = "pollutant" -> "Dilution Successful! Pollutant levels normalized."
      [] alert_type \in {"comfort_hot", "comfort_cold"} ->
           "Comfort Restored! Temperature is normal."
      [] alert_type = "comfort_humid" ->
           "Dehumidification Successful! RH and Temp are normal."

\* line 395: the alert_type stored at the NORMAL -> ALERTING transition
TriggerAlertType(trigger_reasons) ==
    IF \E i \in DOMAIN trigger_reasons : trigger_reasons[i] \in pollutant_triggers
    THEN "pollutant" ELSE "comfort"

\* a debounce that escalates one tick late (> for >=)
PersistenceElapsedLate(ts, st) == ts - st.alert_start_time > persistence_minutes

\* a debounce that escalates only at the minute the window ends (= for >=)
PersistenceElapsedExact(ts, st) == ts - st.alert_start_time = persistence_minutes

\* line 398-399: duration >= persistence_delta
PersistenceElapsed(ts, st) == ts - st.alert_start_time >= persistence_minutes

\* a loop that leaves the fire flag to the router
MarkFiredLeftOut(st) == st

\* line 401: current_state["has_fired"] = True
MarkFired(st) == [st EXCEPT !.has_fired = TRUE]

\* a NORMAL -> ALERTING transition that keeps the cycle counter
TriggeredStateKeepsCount(ts, st, trigger_reasons) ==
    [ is_triggered |-> TRUE, alert_start_time |-> ts, has_fired |-> FALSE,
      dilution_cycle_count |-> st.dilution_cycle_count,
      alert_type |-> TriggerAlertType(trigger_reasons) ]

\* line 396: the state of the NORMAL -> ALERTING transition
TriggeredState(ts, st, trigger_reasons) ==
    [ is_triggered |-> TRUE, alert_start_time |-> ts, has_fired |-> FALSE,
      dilution_cycle_count |-> 0,
      alert_type |-> TriggerAlertType(trigger_reasons) ]

\* lines 392-403: the trigger check and the state transition
Transition(ts, sensor_id, st, log, row, vav_rows, ahu_rows, missing) ==
    LET chk == _check_iaq_triggers(row)
        trigger_reasons == chk.reasons
        is_currently_triggered == trigger_reasons # << >>
    IN  IF chk.err # "none" THEN Result(st, log, chk.err)
        ELSE IF is_currently_triggered /\ ~st.is_triggered
        THEN Result(TriggeredState(ts, st, trigger_reasons), log, "none")
        ELSE IF is_currently_triggered /\ st.is_triggered
        THEN IF PersistenceElapsed(ts, st) /\ ~st.has_fired
             THEN LET r == _handle_persistent_alert(ts, sensor_id, st, log, row,
                               trigger_reasons, vav_rows, ahu_rows, missing)
                  IN  IF r.err # "none" THEN r
                      ELSE Result(MarkFired(r.st), r.log, "none")
             ELSE Result(st, log, "none")
        ELSE IF ~is_currently_triggered /\ st.is_triggered
        THEN Result([st EXCEPT !.is_triggered = FALSE, !.alert_start_time = None,
                               !.has_fired = FALSE],
                    log, "none")
        ELSE Result(st, log, "none")

\* a loop body without the recovery check of lines 374-391
EvaluateRowWithoutRecovery(ts, sensor_id, st, log, row, vav_rows, ahu_rows, missing) ==
    Transition(ts, sensor_id, st, log, row, vav_rows, ahu_rows, missing)

\* a loop body that goes on to the trigger check after a normalization
EvaluateRowRetriggers(ts, sensor_id, st, log, row, vav_rows, ahu_rows, missing) ==
    LET rec == IF st.is_triggered THEN RecoveryCheck(st, row) ELSE "False"
    IN  IF rec = "TypeError" THEN Result(st, log, "TypeError")
        ELSE IF rec = "True"
        THEN Transition(ts, sensor_id, ClearedState,
                _log_action(log, ts, sensor_id, "Normalization",
                    Details(NormalizationText(st.alert_type), << >>, << >>),
                    EmptyStr, 0),
                row, vav_rows, ahu_rows, missing)
        ELSE Transition(ts, sensor_id, st, log, row, vav_rows, ahu_rows, missing)

\* lines 374-403
EvaluateRow(ts, sensor_id, st, log, row, vav_rows, ahu_rows, missing) ==
    LET rec == IF st.is_triggered THEN RecoveryCheck(st, row) ELSE "False"
    IN  IF rec = "TypeError" THEN Result(st, log, "TypeError")
        ELSE IF rec = "True"
        THEN Result(ClearedState,
                _log_action(log, ts, sensor_id, "Normalization",
                    Details(NormalizationText(st.alert_type), << >>, << >>),
                    EmptyStr, 0),
                "none")
        ELSE Transition(ts, sensor_id, st, log, row, vav_rows, ahu_rows, missing)

(***************************************************************************)
(* The input tables.                                                       *)
(***************************************************************************)
\* the rows a sensor may have at a timestamp: every combination of a tvoc
\* below the normalization threshold, at it and above the trigger threshold,
\* a humidity below the normalization threshold, at the trigger threshold and
\* above it, a temperature below, in and above the band or None; and a row
\* whose tvoc is None
SensorRows ==
    [ tvoc : {300, 400, 600}, humidity : {60, 70, 75},
      temperature : {22, 24, 28, None} ]
    \cup [ tvoc : {None}, humidity : {60}, temperature : {24} ]

\* the rows of the mapped VAV at a timestamp
VavRows == [ cmaxflo : {1000}, supflosp : {200, 500, 1000}, ocmnc_sp : {200} ]

\* the AHU rows at a timestamp
AhuRows ==
    [ pri_filt_sts : {0}, sec_fil_sts : {0}, fad_fb : {80, 100}, fad_max_stpt : {100} ]
    \cup { [ pri_filt_sts |-> 1, sec_fil_sts |-> 0, fad_fb |-> 80, fad_max_stpt |-> 100 ],
           [ pri_filt_sts |-> 0, sec_fil_sts |-> 1, fad_fb |-> 80, fad_max_stpt |-> 100 ] }

\* a table filtered to a timestamp holds the row of that timestamp or none
AtMostOne(rows) == { {} } \cup { {r} : r \in rows }


\* the kinds of input tables of a run: "any" is every table within the
\* bounds; "full_cycle" is the scenario of test_run_simulation_full_cycle,
\* one sensor whose tvoc is 600 at minutes 0..persistence_minutes and 300 at
\* the next, nothing else violating, a VAV row below its maximum flow and no
\* tripped filter; "pair" is tables of two sensors, whose rows have the tvoc
\* below normalization, above the trigger or None, the humidity below
\* normalization or above the maximum and the temperature below, in or
\* above the band; "episodes" is tables of one sensor whose tvoc is above
\* the trigger threshold at minute 0 and never below the normalization
\* threshold afterwards, the humidity below normalization, the temperature
\* in or above the band, no filter tripped
TableKinds == {"any", "full_cycle", "pair", "episodes"}

\* the timestamps that may follow ts in the IAQ table
TimestampsOf(kind, t, n) ==
    IF t = None THEN { x \in {0} : x < n }
    ELSE IF kind = "full_cycle" THEN { x \in {t + 1} : x < n }
    ELSE { x \in (t + 1)..(t + MaxGap) : x < n }

SensorRowsOf(kind, t) ==
    IF kind = "full_cycle"
    THEN { r \in SensorRows :
             /\ r.tvoc = (IF t <= persistence_minutes THEN 600 ELSE 300)
             /\ r.humidity \in {60, 70}
             /\ r.temperature \in {24, None} }
    ELSE IF kind = "episodes"
    THEN { r \in SensorRows :
             /\ r.tvoc \in (IF t = 0 THEN {600} ELSE {400, 600})
             /\ r.humidity = 60
             /\ r.temperature \in {24, 28} }
    ELSE IF kind = "pair"
    THEN { r \in SensorRows :
             /\ r.tvoc \in {300, 600, None}
             /\ r.humidity \in {60, 75}
             /\ r.temperature \in {22, 24, 28} }
    ELSE SensorRows

VavTablesOf(kind) ==
    IF kind = "full_cycle"
    THEN { {r} : r \in { x \in VavRows : x.supflosp < x.cmaxflo } }
    ELSE AtMostOne(VavRows)

Tripped(rows) ==
    rows # {} /\ \E r \in rows : r.pri_filt_sts = 1 \/ r.sec_fil_sts = 1

AhuTablesOf(kind) ==
    IF kind \in {"full_cycle", "episodes"}
    THEN { rows \in AtMostOne(AhuRows) : ~Tripped(rows) }
    ELSE AtMostOne(AhuRows)

\* the frames fetch_psi_data may return: the empty frame (the feed is
\* unavailable), a frame without the 24-hour index, and a frame with it
PsiValues == {None, 0, 50, 101, 150, 200, 201, 250, 301}

\* thresholds.psi as the tests configure it
ConfiguredPsi ==
    [ unhealthy_min |-> unhealthy_min, unhealthy_max |-> unhealthy_max,
      very_unhealthy_min |-> very_unhealthy_min ]

\* thresholds.psi of the configurations: the tests' one, one whose ranges
\* overlap (unhealthy_max above very_unhealthy_min) and one whose ranges
\* leave a gap (very_unhealthy_min well above unhealthy_max)
PsiThresholdSets ==
    { ConfiguredPsi,
      [ ConfiguredPsi EXCEPT !.unhealthy_max = very_unhealthy_min + 49 ],
      [ ConfiguredPsi EXCEPT !.very_unhealthy_min = unhealthy_max + 101 ] }

PsiFeeds ==
    { {} }
    \cup { { [ metric |-> "pm25_twenty_four_hourly", central |-> 12 ] } }
    \cup { { [ metric |-> "psi_twenty_four_hourly", central |-> v ] } : v \in PsiValues }

\* the configurations an engine is constructed from: the complete one, and
\* the complete one less one key
Configurations == { {} } \cup { {p} : p \in ConfigPaths }

\* whether a row violates a trigger threshold (history only)
ViolatesTrigger(cells) ==
    \/ \E k \in DOMAIN cells \cap (pollutant_triggers \cup {"humidity"}) :
         cells[k] # None /\ cells[k] > TriggerThreshold(k)
    \/ /\ "temperature" \in DOMAIN cells
       /\ cells.temperature # None
       /\ (cells.temperature < temp_c_min \/ cells.temperature > temp_c_max)

VARIABLES
    pc,             \* "new", "config_error", "ready", "loop", "done", "error",
                    \* and "call", "returned", "raised" for a direct call
    config,         \* the key paths the configuration lacks
    psi_data,       \* the frame fetch_psi_data returns, as a set of rows
    iaq_sensors,    \* the sensor ids of the IAQ table
    tables,         \* the kind of input tables of the run (see TableKinds)
    minutes,        \* the timestamps of the IAQ table lie in 0..minutes-1
    error,          \* the exception that left the call, or "none"
    sensor_states,  \* self.sensor_states
    log_records,    \* self.log_records
    ts,             \* the timestamp of the loop
    pending,        \* the sensors whose row at ts is still to be evaluated
    sensor_row,     \* the row the loop body is evaluating, with its sensor_id
    vav_rows,       \* the VAV table filtered to ts and the sensor's VAV
    ahu_rows,       \* the AHU table filtered to ts
    reasons_arg,    \* the reasons a direct call of the router is given
    first_violation,  \* history: per sensor, the first timestamp at which its
                      \* row violated a trigger threshold (None: not yet)
    sustained,      \* history: per sensor, whether a row of the sensor was
                    \* evaluated and violating at every minute since then
    solo_states,    \* history: per sensor, the state the loop body gives when
                    \* it is applied to the sensor's rows alone
    solo_logs,      \* history: per sensor, the records it then logs
    result,         \* the value a direct call of a check returns
    readings        \* history: per sensor, the rows of the sensor evaluated
                    \* during its present alert, the triggering one
                    \* included: 0 (no alert), 1, or 2 for two or more

vars == << pc, config, max_dilution_cycles, psi_thresholds, psi_data, iaq_sensors, tables, minutes,
           error, sensor_states, log_records, ts, pending, sensor_row, vav_rows,
           ahu_rows, reasons_arg, first_violation, sustained, solo_states,
           solo_logs, result, readings >>

\* the state before the engine is constructed
InitRun(configs, limits, psis, feeds, sensor_sets, kinds, spans) ==
    /\ pc = "new"
    /\ config \in configs
    /\ max_dilution_cycles \in limits
    /\ psi_thresholds \in psis
    /\ psi_data \in feeds
    /\ iaq_sensors \in sensor_sets
    /\ tables \in kinds
    /\ minutes \in spans
    /\ error = "none"
    /\ sensor_states = << >>
    /\ log_records = << >>
    /\ ts = None
    /\ pending = {}
    /\ sensor_row = {}
    /\ vav_rows = {}
    /\ ahu_rows = {}
    /\ reasons_arg = << >>
    /\ first_violation = [ s \in Sensors |-> None ]
    /\ sustained = [ s \in Sensors |-> FALSE ]
    /\ solo_states = [ s \in Sensors |-> NewSensorState ]
    /\ solo_logs = [ s \in Sensors |-> << >> ]
    /\ result = None
    /\ readings = [ s \in Sensors |-> 0 ]

\* the same with thresholds.psi as the tests configure it
InitWith(configs, limits, feeds, sensor_sets, kinds, spans) ==
    InitRun(configs, limits, { ConfiguredPsi }, feeds, sensor_sets, kinds, spans)

\* a run of an engine with the complete configuration, on a table of the
\* mapped sensor "047" or of the unmapped sensor "099", the PSI feed
\* unavailable
Init ==
    InitWith({ {} }, CycleLimits, { {} }, { {"047"}, {"099"} }, {"any"}, {MaxTicks})

\* IAQLogicEngine.__init__
Construct ==
    /\ pc = "new"
    /\ pc' = IF _validate_config(config) = << >> THEN "ready" ELSE "config_error"
    /\ error' = IF _validate_config(config) = << >> THEN "none" ELSE "ValueError"
    /\ UNCHANGED << config, max_dilution_cycles, psi_thresholds, psi_data, iaq_sensors, tables,
                    minutes, sensor_states, log_records, ts, pending, sensor_row,
                    vav_rows, ahu_rows, reasons_arg, first_violation, sustained,
                    solo_states, solo_logs, result,
                    readings >>

\* a band test that takes the unhealthy range from any value up
PsiBandWithoutMinimum(value) ==
    IF value <= psi_thresholds.unhealthy_max THEN "unhealthy"
    ELSE IF value >= psi_thresholds.very_unhealthy_min THEN "very_unhealthy"
    ELSE "none"

\* a band test whose unhealthy range excludes its lower end
PsiBandStrictMinimum(value) ==
    IF psi_thresholds.unhealthy_min < value /\ value <= psi_thresholds.unhealthy_max
    THEN "unhealthy"
    ELSE IF value >= psi_thresholds.very_unhealthy_min THEN "very_unhealthy"
    ELSE "none"

\* lines 360-363: the band of a truthy index, the unhealthy range tested
\* first
PsiBand(value) ==
    IF psi_thresholds.unhealthy_min <= value /\ value <= psi_thresholds.unhealthy_max
    THEN "unhealthy"
    ELSE IF value >= psi_thresholds.very_unhealthy_min THEN "very_unhealthy"
    ELSE "none"

\* the one-shot PSI advisory of run_simulation (lines 353-363): the log it
\* leaves and the exception it raises; .item() of a selection that is not one
\* row raises ValueError
PsiAdvisory(log, feed) ==
    LET sel == { r \in feed : r.metric = "psi_twenty_four_hourly" }
        psi_value_24hr == TheRow(sel).central
    IN  IF feed = {} THEN [ log |-> log, err |-> "none" ]
        ELSE IF Cardinality(sel) # 1 THEN [ log |-> log, err |-> "ValueError" ]
        ELSE IF psi_value_24hr = None \/ psi_value_24hr = 0
        THEN [ log |-> log, err |-> "none" ]
        ELSE IF PsiBand(psi_value_24hr) = "unhealthy"
        THEN [ log |-> _log_action(log, NA, "SYSTEM", "PSI Alert",
                          Details("PSI is Unhealthy. Haze Mode Protocol triggered. Recommending Carbon Filters.",
                                  << >>, << >>), EmptyStr, 0),
               err |-> "none" ]
        ELSE IF PsiBand(psi_value_24hr) = "very_unhealthy"
        THEN [ log |-> _log_action(log, NA, "SYSTEM", "PSI Alert",
                          Details("PSI is Very Unhealthy/Hazardous. Recommending HEPA Filters.",
                                  << >>, << >>), EmptyStr, 0),
               err |-> "none" ]
        ELSE [ log |-> log, err |-> "none" ]

\* run_simulation up to the loop (lines 347-363)
StartRun ==
    /\ pc = "ready"
    /\ log_records' = PsiAdvisory(log_records, psi_data).log
    /\ error' = PsiAdvisory(log_records, psi_data).err
    /\ pc' = IF PsiAdvisory(log_records, psi_data).err = "none" THEN "loop" ELSE "error"
    /\ UNCHANGED << config, max_dilution_cycles, psi_thresholds, psi_data, iaq_sensors, tables,
                    minutes, sensor_states, ts, pending, sensor_row, vav_rows,
                    ahu_rows, reasons_arg, first_violation, sustained,
                    solo_states, solo_logs, result,
                    readings >>

\* a filter gate that looks at the primary filter status alone
FilterAlarmPrimaryOnly(missing, rows) ==
    /\ Has(missing, << "parameters", "enable_bms_filter_check" >>)
    /\ rows # {}
    /\ TheRow(rows).pri_filt_sts = 1

\* a filter gate that does not look at enable_bms_filter_check
FilterAlarmIgnoresSwitch(missing, rows) ==
    /\ rows # {}
    /\ (TheRow(rows).pri_filt_sts = 1 \/ TheRow(rows).sec_fil_sts = 1)

\* IAQLogicEngine._check_bms_filter_alarms: whether the alarm is tripped
FilterAlarm(missing, rows) ==
    /\ Has(missing, << "parameters", "enable_bms_filter_check" >>)
    /\ rows # {}
    /\ (TheRow(rows).pri_filt_sts = 1 \/ TheRow(rows).sec_fil_sts = 1)

\* IAQLogicEngine._check_bms_filter_alarms: the log it leaves
_check_bms_filter_alarms(log, t, missing, rows) ==
    IF FilterAlarm(missing, rows)
    THEN _log_action(log, t, "SYSTEM_BMS", "BMS Filter Alarm",
             Details("AHU filter clog detected. FM team to inspect.", << >>,
                     << TheRow(rows).pri_filt_sts, TheRow(rows).sec_fil_sts >>),
             EmptyStr, 0)
    ELSE log

AlarmCount(log) ==
    Cardinality({ i \in DOMAIN log : log[i].event = "BMS Filter Alarm" })

\* the loop reaches the next timestamp of the IAQ table and runs the filter
\* gate on its AHU row (lines 364-368)
NextTimestamp ==
    /\ pc = "loop"
    /\ pending = {}
    /\ \E t \in TimestampsOf(tables, ts, minutes),
          present \in (SUBSET iaq_sensors) \ { {} },
          ahu \in AhuTablesOf(tables) :
         /\ Tripped(ahu) => AlarmCount(log_records) < MaxAlarms
         /\ ts' = t
         /\ ahu_rows' = ahu
         /\ log_records' = _check_bms_filter_alarms(log_records, t, config, ahu)
         /\ pending' = IF FilterAlarm(config, ahu) THEN {} ELSE present
         /\ sustained' =
              [ s \in Sensors |->
                  /\ sustained[s]
                  /\ t = ts + 1
                  /\ s \in present
                  /\ ~FilterAlarm(config, ahu) ]
    /\ UNCHANGED << pc, config, max_dilution_cycles, psi_thresholds, psi_data, iaq_sensors, tables,
                    minutes, error, sensor_states, sensor_row, vav_rows,
                    reasons_arg, first_violation,
                    solo_states, solo_logs, result,
                    readings >>

StateOf(states, sensor_id) ==
    IF sensor_id \in DOMAIN states THEN states[sensor_id] ELSE NewSensorState

\* whether the loop body, given this row, filters the VAV table: with an
\* empty VAV table it ends in a Halted record
ReadsVav(t, sensor_id, st, row, ahu, missing) ==
    LET r == EvaluateRow(t, sensor_id, st, << >>, row, {}, ahu, missing)
    IN  /\ r.log # << >>
        /\ r.log[Len(r.log)].event \in
             {"Branch A Halted", "Branch B Halted", "Branch C Halted"}

\* the loop takes the next row of readings_for_ts (line 369); the VAV row of
\* the timestamp is drawn with it when the loop body will read it
FetchRow ==
    /\ pc = "loop"
    /\ sensor_row = {}
    /\ \E sensor_id \in pending, row \in SensorRowsOf(tables, ts) :
         /\ sensor_row' = { [ sensor_id |-> sensor_id, cells |-> row ] }
         /\ IF ReadsVav(ts, sensor_id, StateOf(sensor_states, sensor_id),
                        row, ahu_rows, config)
            THEN vav_rows' \in VavTablesOf(tables)
            ELSE vav_rows' = {}
    /\ UNCHANGED << pc, config, max_dilution_cycles, psi_thresholds, psi_data, iaq_sensors, tables,
                    minutes, error, sensor_states, log_records, ts, pending,
                    ahu_rows, reasons_arg, first_violation, sustained,
                    solo_states, solo_logs, result,
                    readings >>

\* the loop body for the row taken (lines 370-403)
EvalSensor ==
    /\ pc = "loop"
    /\ sensor_row # {}
    /\ LET sensor_id == TheRow(sensor_row).sensor_id
           cells == TheRow(sensor_row).cells
           r == EvaluateRow(ts, sensor_id, StateOf(sensor_states, sensor_id),
                            log_records, cells, vav_rows, ahu_rows, config)
       IN  /\ sensor_states' =
                [ x \in DOMAIN sensor_states \cup {sensor_id} |->
                    IF x = sensor_id THEN r.st ELSE sensor_states[x] ]
           /\ log_records' = r.log
           /\ error' = r.err
           /\ pc' = IF r.err = "none" THEN "loop" ELSE "error"
           /\ pending' = pending \ {sensor_id}
           /\ ahu_rows' = IF pending \ {sensor_id} = {} THEN {} ELSE ahu_rows
           /\ first_violation' =
                IF first_violation[sensor_id] = None /\ ViolatesTrigger(cells)
                THEN [ first_violation EXCEPT ![sensor_id] = ts ]
                ELSE first_violation
           /\ sustained' =
                [ sustained EXCEPT ![sensor_id] =
                    IF first_violation[sensor_id] = None
                    THEN ViolatesTrigger(cells)
                    ELSE @ /\ ViolatesTrigger(cells) ]
           /\ LET solo == EvaluateRow(ts, sensor_id, solo_states[sensor_id],
                                      solo_logs[sensor_id], cells, vav_rows,
                                      ahu_rows, config)
              IN  /\ solo_states' = [ solo_states EXCEPT ![sensor_id] = solo.st ]
                  /\ solo_logs' = [ solo_logs EXCEPT ![sensor_id] = solo.log ]
           /\ readings' =
                [ readings EXCEPT ![sensor_id] =
                    IF ~r.st.is_triggered THEN 0
                    ELSE IF ~StateOf(sensor_states, sensor_id).is_triggered THEN 1
                    ELSE 2 ]
    /\ sensor_row' = {}
    /\ vav_rows' = {}
    /\ UNCHANGED << config, max_dilution_cycles, psi_thresholds, psi_data, iaq_sensors, tables,
                    minutes, ts, reasons_arg, result >>

\* the IAQ table has no further timestamp (lines 404-405)
Finish ==
    /\ pc = "loop"
    /\ pending = {}
    /\ pc' = "done"
    /\ UNCHANGED << config, max_dilution_cycles, psi_thresholds, psi_data, iaq_sensors, tables,
                    minutes, error, sensor_states, log_records, ts, pending,
                    sensor_row, vav_rows, ahu_rows, reasons_arg, first_violation,
                    sustained,
                    solo_states, solo_logs, result,
                    readings >>

\* what run_simulation returns (line 405), by name
ReturnValue == [ log_records |-> log_records ]

Next == Construct \/ StartRun \/ NextTimestamp \/ FetchRow \/ EvalSensor \/ Finish

Spec == Init /\ [][Next]_vars

(***************************************************************************)
(* Properties of a run.  They are written from the log and the state as    *)
(* the run leaves them, and from the row the loop body is given.           *)
(***************************************************************************)
\* the step of the loop body on the row of sensor s
EvaluationStep(s) ==
    /\ pc = "loop"
    /\ sensor_row # {}
    /\ \A r \in sensor_row : r.sensor_id = s
    /\ sensor_row' = {}

\* the cells of the row the loop body is given
Cells == (CHOOSE r \in sensor_row : TRUE).cells

\* the records a step appends
Appended == SubSeq(log_records', Len(log_records) + 1, Len(log_records'))

AppendsOnly ==
    /\ Len(log_records') >= Len(log_records)
    /\ SubSeq(log_records', 1, Len(log_records)) = log_records

\* the positions of the log at which the router was invoked for sensor s
RouterRecords(s) ==
    { i \in DOMAIN log_records :
        /\ log_records[i].sensor_id = s
        /\ log_records[i].event \in {"Branch Routing", "Conflict Alert"} }

NormalizationRecords(s) ==
    { i \in DOMAIN log_records :
        /\ log_records[i].sensor_id = s
        /\ log_records[i].event = "Normalization" }

\* the last timestamp at which the row of sensor s has been evaluated
EvaluatedThrough(s) == IF s \in pending THEN ts - 1 ELSE ts

\* the router is invoked exactly once for sensor s, at timestamp due, once
\* the evaluation has reached due, and not before
OnceAt(s, due) ==
    /\ \A i \in RouterRecords(s) : log_records[i].timestamp = due
    /\ Cardinality(RouterRecords(s)) <= 1
    /\ EvaluatedThrough(s) >= due => RouterRecords(s) # {}

\* C1 as stated: for every sensor whose rows violate a trigger threshold at
\* every one-minute timestamp from its first violating timestamp t0 on, the
\* router is invoked exactly once in that stretch, at the first timestamp t
\* with t - t0 >= persistence_minutes and at no earlier one.
C1_EscalatesOnceAtPersistence ==
    \A s \in Sensors :
        (first_violation[s] # None /\ sustained[s])
            => OnceAt(s, first_violation[s] + persistence_minutes)

\* C1 amended: the same, for a stretch in which the rows, besides violating
\* a trigger threshold, never satisfy the recovery predicate of the sensor's
\* alert type (no Normalization record is written for the sensor).
C1_EscalatesOnceUnlessNormalized ==
    \A s \in Sensors :
        (first_violation[s] # None /\ sustained[s] /\ NormalizationRecords(s) = {})
            => OnceAt(s, first_violation[s] + persistence_minutes)

\* a sensor has violated for a minute more than the persistence window and
\* the router has been invoked for it once
C1_Witness ==
    \E s \in Sensors :
        /\ first_violation[s] # None /\ sustained[s] /\ NormalizationRecords(s) = {}
        /\ EvaluatedThrough(s) > first_violation[s] + persistence_minutes
        /\ Cardinality(RouterRecords(s)) = 1

\* every pollutant cell of the row is strictly below its normalization threshold
AllPollutantsBelowNormalization(cells) ==
    \A k \in pollutant_triggers :
        Get(cells, k, sensor_reading_default) < NormThreshold(k)

\* C2: a sensor that is ALERTING with alert_type pollutant stays ALERTING at a
\* tick whose row violates no trigger threshold but has a pollutant not
\* strictly below its normalization threshold (is_triggered stays true,
\* alert_start_time is kept, has_fired becomes false); it returns to NORMAL
\* only at a tick whose five pollutants are all strictly below normalization.
C2_HysteresisKeepsAlerting ==
    [][ \A s \in DOMAIN sensor_states :
          ( /\ EvaluationStep(s)
            /\ pc' = "loop"
            /\ sensor_states[s].is_triggered
            /\ sensor_states[s].alert_type = "pollutant" )
          => /\ ( ~ViolatesTrigger(Cells) /\ ~AllPollutantsBelowNormalization(Cells) )
                  => /\ sensor_states'[s].is_triggered
                     /\ sensor_states'[s].alert_start_time = sensor_states[s].alert_start_time
                     /\ ~sensor_states'[s].has_fired
             /\ ~sensor_states'[s].is_triggered
                  => AllPollutantsBelowNormalization(Cells) ]_vars

\* C3: in every reachable state of a run every sensor's dilution_cycle_count
\* is at most max_dilution_cycles.
C3_CountWithinLimit ==
    \A s \in DOMAIN sensor_states :
        sensor_states[s].dilution_cycle_count <= max_dilution_cycles

\* an escalation met a counter that stood at the limit and left it there
C3_Witness ==
    \E s \in DOMAIN sensor_states :
        /\ sensor_states[s].dilution_cycle_count = max_dilution_cycles
        /\ \E i \in DOMAIN log_records :
             /\ log_records[i].sensor_id = s
             /\ log_records[i].event = "Dilution Failed"

\* filter-alarm checking is enabled and the AHU row has a tripped status
AlarmActive(rows) ==
    /\ << "parameters" >> \notin config
    /\ << "parameters", "enable_bms_filter_check" >> \notin config
    /\ Tripped(rows)

\* C4: at a timestamp where filter-alarm checking is enabled and the AHU row
\* has the primary or secondary filter status tripped, the run appends one
\* "BMS Filter Alarm" record of SYSTEM_BMS and nothing else: no sensor's row
\* is evaluated, no sensor state changes and none is created.
C4_AlarmSuppressesSensors ==
    [][ /\ ( ts' # ts /\ AlarmActive(ahu_rows') )
            => /\ AppendsOnly
               /\ Len(Appended) = 1
               /\ Appended[1].event = "BMS Filter Alarm"
               /\ Appended[1].sensor_id = "SYSTEM_BMS"
               /\ Appended[1].timestamp = ts'
               /\ sensor_states' = sensor_states
               /\ pending' = {}
        /\ ( ts' = ts /\ AlarmActive(ahu_rows) )
            => /\ log_records' = log_records
               /\ sensor_states' = sensor_states
               /\ sensor_row' = {} ]_vars

\* the alarm record is the last of the log while a sensor is ALERTING
C4_Witness ==
    /\ pc = "loop"
    /\ AlarmActive(ahu_rows)
    /\ log_records # << >>
    /\ log_records[Len(log_records)].event = "BMS Filter Alarm"
    /\ log_records[Len(log_records)].timestamp = ts
    /\ \E s \in DOMAIN sensor_states : sensor_states[s].is_triggered

\* C5: once the engine is constructed from a configuration that passed
\* validation, run_simulation never ends in an error.
C5_RunNeverAborts == pc # "error"


\* the step of the loop body on the row of sensor s invokes the router
EscalationStep(s) ==
    /\ EvaluationStep(s)
    /\ AppendsOnly
    /\ Appended # << >>
    /\ Appended[1].sensor_id = s
    /\ Appended[1].event \in {"Branch Routing", "Conflict Alert"}

\* the outcome Branch A is to choose from the VAV row and the AHU row
BranchAOutcome(vav, ahu) ==
    IF \E r \in vav : r.supflosp < r.cmaxflo THEN "VAV Action"
    ELSE IF \E r \in ahu : r.fad_fb < r.fad_max_stpt THEN "PAD Action"
    ELSE "Alert"

\* C9: invoked below the cycle limit for a sensor with a VAV mapping and a
\* VAV row at the timestamp, Branch A appends exactly one outcome record:
\* "VAV Action" iff the VAV flow setpoint is below its maximum, otherwise
\* "PAD Action" (by pad_increase_percent) iff the AHU damper feedback is below
\* the damper maximum setpoint, otherwise "Alert".
C9_BranchAOutcomeChosen ==
    [][ \A s \in DOMAIN sensor_states :
          ( /\ EscalationStep(s)
            /\ Appended[1].details.text = "Pollutant alert. Routing to Branch A."
            /\ sensor_states[s].dilution_cycle_count < max_dilution_cycles
            /\ s \in DOMAIN ConfiguredVavMap
            /\ << "sensor_to_vav_map" >> \notin config
            /\ << "sensor_to_vav_map", s >> \notin config
            /\ vav_rows # {} )
          => \E i \in DOMAIN Appended :
               /\ \A j \in DOMAIN Appended :
                    Appended[j].event \in {"VAV Action", "PAD Action", "Alert"} <=> j = i
               /\ Appended[i].event = BranchAOutcome(vav_rows, ahu_rows)
               /\ Appended[i].event = "PAD Action"
                    => Appended[i].details.args = << pad_increase_percent >> ]_vars

\* C10: at an escalation with no pollutant reason, with the humidity above
\* the RH maximum and the temperature outside [temp_c_min, temp_c_max], the
\* router appends a "Conflict Alert" record and nothing else, and leaves
\* dilution_cycle_count as it is.
C10_ConflictWhenHumidAndOutOfBand ==
    [][ \A s \in DOMAIN sensor_states :
          ( /\ EscalationStep(s)
            /\ \A i \in DOMAIN Appended[1].reasons[1] :
                 Appended[1].reasons[1][i] \notin pollutant_triggers
            /\ Cells.humidity # None
            /\ Cells.humidity > trig_rh_percent_max
            /\ Cells.temperature # None
            /\ (Cells.temperature < temp_c_min \/ Cells.temperature > temp_c_max) )
          => /\ Len(Appended) = 1
             /\ Appended[1].event = "Conflict Alert"
             /\ sensor_states'[s].dilution_cycle_count
                  = sensor_states[s].dilution_cycle_count ]_vars


(***************************************************************************)
(* Runs of an engine constructed from any of the configurations.           *)
(***************************************************************************)
\* number of minutes the runs of SpecConfig span
ConfigTicks == 3

InitConfig ==
    InitWith(Configurations, {3}, { {} }, { {"047"} }, {"any"}, {ConfigTicks})

SpecConfig == InitConfig /\ [][Next]_vars

\* the sections and keys of the configuration data model: the top-level
\* sections, the triggering, normalization and psi threshold keys, and the
\* action percentages of branches B, C and D
DataModelPaths ==
    { <<s>> : s \in Range(RequiredSections) }
    \cup { <<"thresholds", "triggering", k>> : k \in Range(RequiredTriggers) }
    \cup { <<"thresholds", "normalization", k>> : k \in Range(RequiredNorms) }
    \cup { <<"thresholds", "psi", k>> : k \in Range(RequiredPsi) }
    \cup { <<"actions", "branch_b", "vav_flow_increase_pct">>,
           <<"actions", "branch_b", "chw_valve_increase_pct">>,
           <<"actions", "branch_c", "vav_flow_decrease_pct">>,
           <<"actions", "branch_c", "chw_valve_decrease_pct">>,
           <<"actions", "branch_d", "chw_valve_increase_pct">> }

\* C6: constructing an engine from a configuration that lacks a section or
\* key of the configuration data model fails at construction, before any
\* simulation step; no key read during a simulation is found missing.
C6_IncompleteConfigurationRefused ==
    /\ (\E p \in DataModelPaths : ~Has(config, p)) => pc \in {"new", "config_error"}
    /\ error # "KeyError"

(***************************************************************************)
(* Runs of the full-cycle scenario.                                        *)
(***************************************************************************)
InitFullCycle ==
    InitWith({ {} }, {3}, PsiFeeds, { {"047"} }, {"full_cycle"},
             {persistence_minutes + 2})

SpecFullCycle == InitFullCycle /\ [][Next]_vars

\* the records of the log that belong to sensor s
RecordsOf(s) == SelectSeq(log_records, LAMBDA r : r.sensor_id = s)

\* C7: for a mapped sensor whose only violation is a pollutant held above its
\* trigger threshold for persistence_minutes + 1 one-minute ticks and then
\* dropped below its normalization threshold, the mapped VAV's flow setpoint
\* below its maximum throughout, the log has for the sensor, in this order, a
\* "Branch Routing" record naming Branch A and a "VAV Action" record at the
\* tick where the elapsed time is persistence_minutes, and a "Normalization"
\* record at the final tick; the final state has is_triggered false and
\* dilution_cycle_count 0.
C7_FullCycle ==
    (pc = "done" /\ ts = persistence_minutes + 1)
        => LET recs == RecordsOf("047")
           IN  /\ \E i, j, k \in DOMAIN recs :
                    /\ i < j /\ j < k
                    /\ recs[i].event = "Branch Routing"
                    /\ recs[i].details.text = "Pollutant alert. Routing to Branch A."
                    /\ recs[i].timestamp = persistence_minutes
                    /\ recs[j].event = "VAV Action"
                    /\ recs[j].timestamp = persistence_minutes
                    /\ recs[k].event = "Normalization"
                    /\ recs[k].timestamp = persistence_minutes + 1
                    /\ k = Len(recs)
               /\ ~sensor_states["047"].is_triggered
               /\ sensor_states["047"].dilution_cycle_count = 0

\* a run of the scenario has returned after its final tick
C7_Witness ==
    /\ pc = "done"
    /\ ts = persistence_minutes + 1
    /\ tables = "full_cycle"
    /\ Len(RecordsOf("047")) >= 3

(***************************************************************************)
(* Direct calls of the router, as the unit tests make them.                *)
(***************************************************************************)
\* every list of reasons _check_iaq_triggers can build
RECURSIVE SubSeqsOf(_)
SubSeqsOf(q) ==
    IF q = << >> THEN { << >> }
    ELSE LET rest == SubSeqsOf(Tail(q))
         IN  rest \cup { << Head(q) >> \o r : r \in rest }

ReasonLists == SubSeqsOf(<< "co2", "tvoc", "pm2_5", "pm10", "hcho", "rh", "temp" >>)

\* the humidity and temperature cells of the row the router is given
RouterRows ==
    [ humidity : {60, 69, 70, 71, None}, temperature : {22, 23, 24, 25, 26, None} ]

\* the state before a call of _handle_persistent_alert for sensor "047"
InitRouter ==
    /\ pc = "call"
    /\ config = {}
    /\ max_dilution_cycles = 3
    /\ psi_thresholds = ConfiguredPsi
    /\ psi_data = {}
    /\ iaq_sensors = {"047"}
    /\ tables = "any"
    /\ minutes = MaxTicks
    /\ error = "none"
    /\ sensor_states \in
         [ {"047"} -> [ is_triggered : {TRUE}, alert_start_time : {0},
                        has_fired : {FALSE}, dilution_cycle_count : {0, 3},
                        alert_type : {"comfort"} ] ]
    /\ log_records = << >>
    /\ ts = persistence_minutes
    /\ pending = {}
    /\ sensor_row \in { { [ sensor_id |-> "047", cells |-> r ] } : r \in RouterRows }
    /\ vav_rows \in VavTablesOf("full_cycle")
    /\ ahu_rows = {}
    /\ reasons_arg \in ReasonLists
    /\ first_violation = [ s \in Sensors |-> None ]
    /\ sustained = [ s \in Sensors |-> FALSE ]
    /\ solo_states = [ s \in Sensors |-> NewSensorState ]
    /\ solo_logs = [ s \in Sensors |-> << >> ]
    /\ result = None
    /\ readings = [ s \in Sensors |-> 0 ]

\* engine._handle_persistent_alert(ts, sensor_id, sensor_row, reasons, data)
CallRouter ==
    /\ pc = "call"
    /\ LET sensor_id == TheRow(sensor_row).sensor_id
           r == _handle_persistent_alert(ts, sensor_id, sensor_states[sensor_id],
                    log_records, TheRow(sensor_row).cells, reasons_arg,
                    vav_rows, ahu_rows, config)
       IN  /\ sensor_states' = [ sensor_states EXCEPT ![sensor_id] = r.st ]
           /\ log_records' = r.log
           /\ error' = r.err
           /\ pc' = IF r.err = "none" THEN "returned" ELSE "raised"
    /\ UNCHANGED << config, max_dilution_cycles, psi_thresholds, psi_data, iaq_sensors, tables,
                    minutes, ts, pending, sensor_row, vav_rows, ahu_rows,
                    reasons_arg, first_violation, sustained,
                    solo_states, solo_logs, result,
                    readings >>

NextRouter == CallRouter

SpecRouter == InitRouter /\ [][NextRouter]_vars

\* the branch and the alert_type of the routing table for the arguments of
\* the call, << >> where the table has no row for them
TableRow(reasons, rh, temp) ==
    IF \E i \in DOMAIN reasons : reasons[i] \in pollutant_triggers
    THEN << "Pollutant alert. Routing to Branch A.", "pollutant" >>
    ELSE IF rh = None THEN << >>
    ELSE IF rh >= trig_rh_percent_max
    THEN << "Comfort alert (Too Humid). Routing to Branch D.", "comfort_humid" >>
    ELSE IF temp = None THEN << >>
    ELSE IF temp > temp_c_max
    THEN << "Comfort alert (Too Hot). Routing to Branch B.", "comfort_hot" >>
    ELSE IF temp < temp_c_min
    THEN << "Comfort alert (Too Cold). Routing to Branch C.", "comfort_cold" >>
    ELSE << >>

\* C8: the router's branch is the one of the table: a pollutant among the
\* reasons -> Branch A; otherwise humidity < rh_max and temperature >
\* temp_max -> Branch B; humidity < rh_max and temperature < temp_min ->
\* Branch C; humidity >= rh_max -> Branch D; and the router stores the
\* matching alert_type.
C8_RouterMatchesTable ==
    LET cells == TheRow(sensor_row).cells
        row == TableRow(reasons_arg, cells.humidity, cells.temperature)
    IN  (pc \in {"returned", "raised"} /\ row # << >>)
            => /\ log_records # << >>
               /\ log_records[1].event = "Branch Routing"
               /\ log_records[1].details.text = row[1]
               /\ log_records[1].reasons = Str(reasons_arg)
               /\ sensor_states["047"].alert_type = row[2]
               /\ \A i \in DOMAIN log_records :
                    i > 1 => log_records[i].event \notin {"Branch Routing", "Conflict Alert"}

\* the router has sent a hot and humid row without pollutant reason to Branch D
C8_Witness ==
    /\ pc = "returned"
    /\ reasons_arg = << "rh", "temp" >>
    /\ \E r \in sensor_row : r.cells.humidity >= trig_rh_percent_max
                              /\ r.cells.temperature > temp_c_max
    /\ sensor_states["047"].alert_type = "comfort_humid"


(***************************************************************************)
(* Properties of the alert state machine.                                  *)
(***************************************************************************)
\* a pollutant cell of the row is above its trigger threshold
PollutantViolated(cells) ==
    \E k \in DOMAIN cells \cap pollutant_triggers :
        cells[k] # None /\ cells[k] > TriggerThreshold(k)

ComfortSubTypes == {"comfort_hot", "comfort_cold", "comfort_humid"}

\* C11: at the tick where a NORMAL sensor's row violates a trigger threshold,
\* the sensor's state becomes is_triggered = true, alert_start_time = the
\* current timestamp, has_fired = false, dilution_cycle_count = 0, and
\* alert_type = pollutant if a pollutant is among the violations, otherwise
\* one of the comfort sub-types comfort_hot, comfort_cold, comfort_humid.
C11_TriggerStoresSubType ==
    [][ \A s \in iaq_sensors :
          ( /\ EvaluationStep(s)
            /\ pc' = "loop"
            /\ ~StateOf(sensor_states, s).is_triggered
            /\ ViolatesTrigger(Cells) )
          => /\ sensor_states'[s].is_triggered
             /\ sensor_states'[s].alert_start_time = ts
             /\ ~sensor_states'[s].has_fired
             /\ sensor_states'[s].dilution_cycle_count = 0
             /\ IF PollutantViolated(Cells)
                THEN sensor_states'[s].alert_type = "pollutant"
                ELSE sensor_states'[s].alert_type \in ComfortSubTypes ]_vars

\* the temperature of the row is present and within [temp_c_min, temp_c_max]
TempInBand(cells) ==
    /\ Get(cells, "temperature", None) # None
    /\ temp_c_min <= cells.temperature
    /\ cells.temperature <= temp_c_max

\* the humidity of the row is below the normalization RH threshold
HumidityNormal(cells) ==
    /\ Get(cells, "humidity", sensor_reading_default) # None
    /\ Get(cells, "humidity", sensor_reading_default) < norm_rh_percent_max

\* the recovery predicate of an alert type on a row
RecoveryPredicate(alert_type, cells) ==
    CASE alert_type = "pollutant" ->
           \A k \in pollutant_triggers :
               /\ Get(cells, k, sensor_reading_default) # None
               /\ Get(cells, k, sensor_reading_default) < NormThreshold(k)
      [] alert_type \in {"comfort_hot", "comfort_cold"} -> TempInBand(cells)
      [] alert_type = "comfort_humid" -> TempInBand(cells) /\ HumidityNormal(cells)
      [] OTHER -> FALSE

\* the step appends one record, a "Normalization" of sensor s at ts
NormalizedAlone(s) ==
    /\ AppendsOnly
    /\ Len(Appended) = 1
    /\ Appended[1].event = "Normalization"
    /\ Appended[1].sensor_id = s
    /\ Appended[1].timestamp = ts

\* the step leaves sensor s in the cleared state
Cleared(s) ==
    sensor_states'[s] =
        [ is_triggered |-> FALSE, alert_start_time |-> None, has_fired |-> FALSE,
          dilution_cycle_count |-> 0, alert_type |-> "None" ]

\* C12: when the recovery predicate of an ALERTING sensor's stored alert_type
\* holds on its row at a tick, the run appends exactly one "Normalization"
\* record for it, resets its state to is_triggered = false, alert_start_time
\* = none, has_fired = false, dilution_cycle_count = 0, alert_type = none,
\* and the log has no other record of the sensor at that timestamp: the
\* sensor is not re-triggered in the tick even if the row violates a trigger
\* threshold.
C12_NormalizationEndsTick ==
    [][ \A s \in DOMAIN sensor_states :
          ( /\ EvaluationStep(s)
            /\ sensor_states[s].is_triggered
            /\ RecoveryPredicate(sensor_states[s].alert_type, Cells) )
          => /\ pc' = "loop"
             /\ NormalizedAlone(s)
             /\ Cleared(s)
             /\ \A i \in DOMAIN log_records :
                  ~( log_records[i].sensor_id = s /\ log_records[i].timestamp = ts ) ]_vars

\* a sensor was normalized at a tick whose row violates a trigger threshold
\* (sustained: every row since the first violation has violated one)
C12_Witness ==
    \E s \in DOMAIN sensor_states :
        /\ pc = "loop"
        /\ s \notin pending
        /\ sensor_row = {}
        /\ sustained[s]
        /\ log_records # << >>
        /\ log_records[Len(log_records)].event = "Normalization"
        /\ log_records[Len(log_records)].sensor_id = s
        /\ log_records[Len(log_records)].timestamp = ts
        /\ ~sensor_states[s].is_triggered
        /\ sensor_states[s].alert_type = "None"

\* C13: an ALERTING sensor that entered on a comfort-only violation gets, at
\* a later evaluated tick whose temperature is within [temp_c_min, temp_c_max]
\* (and whose humidity is below the normalization RH threshold), a
\* "Normalization" record and is reset to the cleared state; and every
\* transition of a sensor from ALERTING to NORMAL comes with a
\* "Normalization" record of the sensor at the same timestamp.
C13_ComfortAlertNormalizes ==
    [][ \A s \in DOMAIN sensor_states :
          ( /\ EvaluationStep(s)
            /\ pc' = "loop"
            /\ sensor_states[s].is_triggered )
          => /\ ( /\ sensor_states[s].alert_type = "comfort"
                  /\ TempInBand(Cells)
                  /\ HumidityNormal(Cells) )
                  => NormalizedAlone(s) /\ Cleared(s)
             /\ ~sensor_states'[s].is_triggered
                  => \E i \in DOMAIN Appended :
                       /\ Appended[i].event = "Normalization"
                       /\ Appended[i].sensor_id = s
                       /\ Appended[i].timestamp = ts ]_vars

FailedEvents ==
    {"Dilution Failed", "Cooling Failed", "Warming Failed", "Dehumidification Failed"}

\* the events a branch resolver logs below the cycle limit
ResolverEvents ==
    { "Branch A Skipped", "Dilution Cycle Started", "Branch A Halted",
      "VAV Action", "PAD Action", "Alert",
      "Branch B Skipped", "Cooling Cycle Started", "Branch B Halted",
      "VAV Action (Cooling)", "CHW Valve Action (Cooling)",
      "Branch C Skipped", "Warming Cycle Started", "Branch C Halted",
      "VAV Action (Warming)", "CHW Valve Action (Warming)",
      "Dehumidification Cycle Started", "CHW Valve Action (Dehumidifying)" }

\* C14: after a "Failed" record of a sensor, and until a "Normalization"
\* record of the sensor, the log gets no "Branch Routing" record and no
\* branch-resolver record of the sensor, and the sensor stays in the fired
\* state (is_triggered = true, has_fired = true).
C14_FailedHoldsUntilNormalization ==
    \A s \in DOMAIN sensor_states : \A i \in DOMAIN log_records :
        ( /\ log_records[i].sensor_id = s
          /\ log_records[i].event \in FailedEvents
          /\ \A j \in DOMAIN log_records :
               j > i => ~( log_records[j].sensor_id = s
                           /\ log_records[j].event = "Normalization" ) )
        => /\ sensor_states[s].is_triggered
           /\ sensor_states[s].has_fired
           /\ \A j \in DOMAIN log_records :
                ( j > i /\ log_records[j].sensor_id = s )
                    => log_records[j].event \notin
                         ({"Branch Routing"} \cup ResolverEvents \cup FailedEvents)


(***************************************************************************)
(* Runs with a PSI feed, under each of the thresholds.psi configurations.  *)
(***************************************************************************)
\* number of minutes the runs of SpecPsi span
PsiTicks == 3

InitPsi ==
    InitRun({ {} }, {3}, PsiThresholdSets, PsiFeeds, { {"047"} }, {"any"}, {PsiTicks})

SpecPsi == InitPsi /\ [][Next]_vars

\* the 24-hour index of the fetched frame; None when the frame has none
FetchedIndex ==
    IF \E r \in psi_data : r.metric = "psi_twenty_four_hourly"
    THEN (CHOOSE r \in psi_data : r.metric = "psi_twenty_four_hourly").central
    ELSE None

\* the positions of the "PSI Alert" records of a log
PsiAlertsOf(log) == { i \in DOMAIN log : log[i].event = "PSI Alert" }

\* run_simulation has passed the advisory check
AdvisoryChecked == pc \in {"loop", "done", "error"}

\* C15: when the fetched 24-hour index lies in [unhealthy_min, unhealthy_max],
\* the log has exactly one "PSI Alert" record, of SYSTEM, recommending carbon
\* filtration (Haze Mode), and it is the first record of the log: it precedes
\* every BMS record and every per-sensor record.
C15_HazeAdvisoryFirst ==
    ( /\ AdvisoryChecked
      /\ FetchedIndex # None
      /\ psi_thresholds.unhealthy_min <= FetchedIndex
      /\ FetchedIndex <= psi_thresholds.unhealthy_max )
    => /\ PsiAlertsOf(log_records) = {1}
       /\ log_records[1].sensor_id = "SYSTEM"
       /\ log_records[1].timestamp = NA
       /\ log_records[1].details.text =
            "PSI is Unhealthy. Haze Mode Protocol triggered. Recommending Carbon Filters."

\* a run with index 150 has returned with the advisory, a filter alarm and a
\* sensor's record in its log
C15_Witness ==
    /\ pc = "done"
    /\ FetchedIndex = 150
    /\ PsiAlertsOf(log_records) = {1}
    /\ \E i, j \in DOMAIN log_records :
         /\ log_records[i].sensor_id = "SYSTEM_BMS"
         /\ log_records[j].sensor_id = "047"

\* C16: for every index >= very_unhealthy_min the advisory is the one
\* recommending HEPA filtration, also when the configured ranges overlap and
\* the index lies in [unhealthy_min, unhealthy_max] as well.
C16_VeryUnhealthyWins ==
    ( /\ AdvisoryChecked
      /\ FetchedIndex # None
      /\ FetchedIndex >= psi_thresholds.very_unhealthy_min )
    => /\ PsiAlertsOf(log_records) = {1}
       /\ log_records[1].details.text =
            "PSI is Very Unhealthy/Hazardous. Recommending HEPA Filters."

\* the feed is unavailable, or the index is below unhealthy_min or strictly
\* between unhealthy_max and very_unhealthy_min
NoAdvisoryCase ==
    \/ psi_data = {}
    \/ /\ FetchedIndex # None
       /\ \/ FetchedIndex < psi_thresholds.unhealthy_min
          \/ /\ psi_thresholds.unhealthy_max < FetchedIndex
             /\ FetchedIndex < psi_thresholds.very_unhealthy_min

SkippedEvents == {"Branch A Skipped", "Branch B Skipped", "Branch C Skipped"}

HaltedEvents == {"Branch A Halted", "Branch B Halted", "Branch C Halted"}

\* the configuration maps sensor s to a VAV
Mapped(s) ==
    /\ s \in DOMAIN ConfiguredVavMap
    /\ << "sensor_to_vav_map" >> \notin config
    /\ << "sensor_to_vav_map", s >> \notin config

\* the step routes sensor s to Branch A, B or C below the cycle limit
ResolverStep(s) ==
    /\ EscalationStep(s)
    /\ Appended[1].event = "Branch Routing"
    /\ Appended[1].details.text \in
         { "Pollutant alert. Routing to Branch A.",
           "Comfort alert (Too Hot). Routing to Branch B.",
           "Comfort alert (Too Cold). Routing to Branch C." }
    /\ sensor_states[s].dilution_cycle_count < max_dilution_cycles

\* the VAV row exists and has its flow setpoint at the maximum
VavAtMax == \E r \in vav_rows : r.supflosp >= r.cmaxflo

\* C18: when a branch resolver needs the VAV or the AHU row of the current
\* timestamp and the row is absent (Branch A with the VAV at maximum flow and
\* no AHU row included), the outcome is a "Halted" record ("Skipped" when the
\* sensor has no VAV mapping) and never an error; apart from the cycle
\* increment the resolver leaves the sensor's state as it is.
C18_MissingRowHalts ==
    [][ \A s \in DOMAIN sensor_states :
          ( /\ ResolverStep(s)
            /\ \/ ~Mapped(s)
               \/ vav_rows = {}
               \/ /\ Appended[1].details.text = "Pollutant alert. Routing to Branch A."
                  /\ VavAtMax
                  /\ ahu_rows = {} )
          => /\ pc' = "loop"
             /\ error' = "none"
             /\ IF Mapped(s)
                THEN Appended[Len(Appended)].event \in HaltedEvents
                ELSE Appended[Len(Appended)].event \in SkippedEvents
             /\ sensor_states'[s].is_triggered
             /\ sensor_states'[s].alert_start_time = sensor_states[s].alert_start_time
             /\ sensor_states'[s].dilution_cycle_count
                  = sensor_states[s].dilution_cycle_count + 1 ]_vars

\* C19: a Branch A, B or C invocation below the cycle limit that ends in
\* "Skipped" or "Halted" has increased the sensor's dilution_cycle_count by
\* exactly one, and the Skipped/Halted record carries the new cycle number.
C19_SkippedOrHaltedCountsACycle ==
    [][ \A s \in DOMAIN sensor_states :
          ( /\ EscalationStep(s)
            /\ Appended[Len(Appended)].event \in SkippedEvents \cup HaltedEvents )
          => /\ sensor_states[s].dilution_cycle_count < max_dilution_cycles
             /\ sensor_states'[s].dilution_cycle_count
                  = sensor_states[s].dilution_cycle_count + 1
             /\ Appended[Len(Appended)].dilution_cycle
                  = sensor_states'[s].dilution_cycle_count
             /\ Appended[Len(Appended)].sensor_id = s ]_vars

\* a resolver has ended in "Halted" for the mapped sensor, one cycle counted
C19_Witness ==
    \E s \in DOMAIN sensor_states :
        /\ pc = "loop"
        /\ log_records # << >>
        /\ log_records[Len(log_records)].sensor_id = s
        /\ log_records[Len(log_records)].event \in HaltedEvents
        /\ log_records[Len(log_records)].dilution_cycle = 1
        /\ sensor_states[s].dilution_cycle_count = 1
        /\ sensor_states[s].has_fired

\* the reasons of a record, as a set
ReasonsOf(rec) ==
    IF rec.reasons = EmptyStr THEN {}
    ELSE { rec.reasons[1][k] : k \in DOMAIN rec.reasons[1] }

\* C20: a row whose temperature is absent contributes no reason "temp" and
\* satisfies neither the comfort nor the dehumidification normalization
\* predicate: at a tick without temperature a NORMAL sensor with no other
\* violation stays NORMAL, no record carries the reason "temp", and an alert
\* of type comfort_hot, comfort_cold or comfort_humid is not normalized.
C20_AbsentTemperatureIsInert ==
    [][ \A s \in iaq_sensors :
             ( /\ EvaluationStep(s)
               /\ Get(Cells, "temperature", None) = None )
             => /\ \A i \in DOMAIN _check_iaq_triggers(Cells).reasons :
                     _check_iaq_triggers(Cells).reasons[i] # "temp"
                /\ ~_check_for_comfort_normalization(Cells)
                /\ _check_for_dehumid_normalization(Cells) # "True"
                /\ \A i \in DOMAIN Appended : "temp" \notin ReasonsOf(Appended[i])
                /\ ( /\ ~StateOf(sensor_states, s).is_triggered
                     /\ \A k \in ComparedColumns :
                          ~( Get(Cells, k, sensor_reading_default)
                               > TriggerThreshold(k) ) )
                     => ~sensor_states'[s].is_triggered
                /\ ( /\ StateOf(sensor_states, s).is_triggered
                     /\ StateOf(sensor_states, s).alert_type \in ComfortSubTypes )
                     => /\ \A i \in DOMAIN Appended :
                             Appended[i].event # "Normalization"
                        /\ sensor_states'[s].alert_type
                             = sensor_states[s].alert_type ]_vars

\* a comfort_hot or comfort_cold alert has ended without a Normalization
\* record: its last row had no temperature (a row with the temperature in the
\* band normalizes the alert, one with it outside keeps the alert)
C20_Witness ==
    \E s \in DOMAIN sensor_states :
        /\ pc = "loop"
        /\ s \notin pending
        /\ sensor_row = {}
        /\ sensor_states[s].alert_type \in {"comfort_hot", "comfort_cold"}
        /\ ~sensor_states[s].is_triggered
        /\ NormalizationRecords(s) = {}


(***************************************************************************)
(* Runs over a table of two sensors.                                       *)
(***************************************************************************)
\* number of minutes the runs of SpecPair span
PairTicks == 3

InitPair ==
    InitWith({ {} }, {3}, { {} }, { Sensors }, {"pair"}, {PairTicks})

SpecPair == InitPair /\ [][Next]_vars

\* the branch a "Branch Routing" record names
NamedBranch(rec) ==
    CASE rec.details.text = "Pollutant alert. Routing to Branch A." -> "A"
      [] rec.details.text = "Comfort alert (Too Hot). Routing to Branch B." -> "B"
      [] rec.details.text = "Comfort alert (Too Cold). Routing to Branch C." -> "C"
      [] rec.details.text = "Comfort alert (Too Humid). Routing to Branch D." -> "D"
      [] OTHER -> "none"

\* the events the resolver of a branch logs
EventsOfBranch(branch) ==
    CASE branch = "A" -> { "Dilution Failed", "Branch A Skipped", "Dilution Cycle Started",
                           "Branch A Halted", "VAV Action", "PAD Action", "Alert" }
      [] branch = "B" -> { "Cooling Failed", "Branch B Skipped", "Cooling Cycle Started",
                           "Branch B Halted", "VAV Action (Cooling)",
                           "CHW Valve Action (Cooling)" }
      [] branch = "C" -> { "Warming Failed", "Branch C Skipped", "Warming Cycle Started",
                           "Branch C Halted", "VAV Action (Warming)",
                           "CHW Valve Action (Warming)" }
      [] branch = "D" -> { "Dehumidification Failed", "Dehumidification Cycle Started",
                           "CHW Valve Action (Dehumidifying)" }
      [] OTHER -> {}

\* C22: every branch-resolver record (cycle started, action, Skipped, Halted,
\* Failed) of sensor s at timestamp ts comes after a "Branch Routing" record
\* of the same s and ts, with nothing but records of that sensor, timestamp
\* and branch in between; and a "Branch Routing" record is followed by a
\* record of the resolver of the branch it names.
C22_RoutingPrecedesResolver ==
    /\ \A i \in DOMAIN log_records :
         log_records[i].event \in ResolverEvents \cup FailedEvents
           => \E j \in 1..(i - 1) :
                /\ log_records[j].event = "Branch Routing"
                /\ log_records[j].sensor_id = log_records[i].sensor_id
                /\ log_records[j].timestamp = log_records[i].timestamp
                /\ \A k \in (j + 1)..i :
                     /\ log_records[k].sensor_id = log_records[i].sensor_id
                     /\ log_records[k].timestamp = log_records[i].timestamp
                     /\ log_records[k].event \in EventsOfBranch(NamedBranch(log_records[j]))
    /\ \A j \in DOMAIN log_records :
         log_records[j].event = "Branch Routing"
           => /\ j < Len(log_records)
              /\ log_records[j + 1].sensor_id = log_records[j].sensor_id
              /\ log_records[j + 1].event \in EventsOfBranch(NamedBranch(log_records[j]))

\* both sensors were escalated at one timestamp, to different branches
C22_Witness ==
    \E i, j \in DOMAIN log_records :
        /\ log_records[i].event = "Branch Routing"
        /\ log_records[j].event = "Branch Routing"
        /\ log_records[i].sensor_id = "047"
        /\ log_records[j].sensor_id = "099"
        /\ log_records[i].timestamp = log_records[j].timestamp
        /\ NamedBranch(log_records[i]) # NamedBranch(log_records[j])
        /\ pc = "done"

\* C23: runs over the same input that enumerate the sensors of a timestamp
\* in different orders leave every sensor in the same state with the same
\* records: a sensor's state and records are those its own rows give (the
\* loop body applied to them alone), and when a run ends, every sensor with
\* a row at a timestamp the run has reached has had that row evaluated,
\* whatever the other sensors' rows are and wherever they come in the order.
C23_SensorsIndependent ==
    /\ \A s \in DOMAIN sensor_states :
         /\ sensor_states[s] = solo_states[s]
         /\ RecordsOf(s) = solo_logs[s]
    /\ pc \in {"done", "error"} => pending = {}


(***************************************************************************)
(* Further properties of a run.                                            *)
(***************************************************************************)
\* the row with sensor_default in the place of every absent (None) co2,
\* tvoc, pm2_5, pm10, hcho or humidity value
WithDefaults(cells) ==
    [ k \in DOMAIN cells |->
        IF k \in ComparedColumns /\ cells[k] = None
        THEN sensor_reading_default ELSE cells[k] ]

\* C21: a row with an absent co2, tvoc, pm2_5, pm10, hcho or humidity value
\* is evaluated exactly as the row with sensor_default in its place, and an
\* absent value never ends the run in an error.
C21_AbsentValueIsDefault ==
    [][ \A s \in iaq_sensors :
          EvaluationStep(s)
            => LET r == EvaluateRow(ts, s, StateOf(sensor_states, s), log_records,
                                    WithDefaults(Cells), vav_rows, ahu_rows, config)
               IN  /\ sensor_states'[s] = r.st
                   /\ log_records' = r.log
                   /\ error' # "TypeError" ]_vars

\* C24: the event log is append-only and ordered: every step leaves the old
\* log as a prefix of the new one, only the first record can be the PSI
\* record (timestamp "N/A"), and the timestamps of the other records are
\* non-decreasing.
C24_LogAppendOnlyOrdered ==
    [][ /\ AppendsOnly
        /\ \A i \in DOMAIN log_records' :
             log_records'[i].timestamp = NA => i = 1
        /\ \A i, j \in DOMAIN log_records' :
             ( /\ i < j
               /\ log_records'[i].timestamp # NA
               /\ log_records'[j].timestamp # NA )
             => log_records'[i].timestamp <= log_records'[j].timestamp ]_vars

\* a run has returned a log with the PSI record, a record at the first
\* timestamp and a record at a later one
C24_Witness ==
    /\ pc = "done"
    /\ Len(log_records) >= 3
    /\ log_records[1].timestamp = NA
    /\ log_records[2].timestamp = 0
    /\ log_records[Len(log_records)].timestamp > 0

\* the snapshot of a sensor's state the detailed log is to hold
Snapshot(st) ==
    [ is_triggered |-> st.is_triggered, has_fired |-> st.has_fired,
      alert_type |-> st.alert_type, dilution_cycle |-> st.dilution_cycle_count ]

\* C25: run_simulation returns, alongside the event log, a detailed log with
\* one state snapshot per evaluated sensor reading (one per timestamp in a
\* single-sensor run), each giving the sensor's is_triggered, has_fired,
\* alert_type and dilution_cycle as they are after that tick.
C25_ReturnsDetailedLog ==
    pc = "done"
      => /\ "detailed_log" \in DOMAIN ReturnValue
         /\ Len(ReturnValue.detailed_log) = ts + 1
         /\ ReturnValue.detailed_log[ts + 1] = Snapshot(sensor_states["047"])

\* the step runs a branch resolver for sensor s below the cycle limit
ResolverRan(s) ==
    /\ EscalationStep(s)
    /\ Appended[1].event = "Branch Routing"
    /\ sensor_states[s].dilution_cycle_count < max_dilution_cycles

\* the records a routing can end in: an action, Skipped, Halted, Failed or
\* the Conflict Alert
OutcomeEvents ==
    ( ResolverEvents \ { "Dilution Cycle Started", "Cooling Cycle Started",
                         "Warming Cycle Started", "Dehumidification Cycle Started" } )
    \cup FailedEvents \cup { "Conflict Alert" }

FailedEventOf(branch) ==
    CASE branch = "A" -> "Dilution Failed"
      [] branch = "B" -> "Cooling Failed"
      [] branch = "C" -> "Warming Failed"
      [] branch = "D" -> "Dehumidification Failed"

\* C27: a branch resolver (A, B, C or D) invoked with dilution_cycle_count >=
\* max_dilution_cycles appends exactly one record, the "Failed" record of
\* its branch, and leaves dilution_cycle_count as it is; otherwise it
\* increments the counter by exactly one before anything else: its first
\* record carries the new cycle number.
C27_CycleLimitGuard ==
    [][ ( /\ pc = "call"
          /\ pc' # "call"
          /\ AppendsOnly
          /\ Appended # << >>
          /\ Appended[1].event = "Branch Routing" )
        => LET before == sensor_states["047"].dilution_cycle_count
               after == sensor_states'["047"].dilution_cycle_count
           IN  IF before >= max_dilution_cycles
               THEN /\ Len(Appended) = 2
                    /\ Appended[2].event = FailedEventOf(NamedBranch(Appended[1]))
                    /\ after = before
               ELSE /\ after = before + 1
                    /\ Len(Appended) >= 2
                    /\ Appended[2].event \notin FailedEvents
                    /\ Appended[2].dilution_cycle = before + 1 ]_vars

\* Branch D was invoked at the cycle limit and logged its Failed record
C27_Witness ==
    /\ pc = "returned"
    /\ Len(log_records) = 2
    /\ log_records[2].event = "Dehumidification Failed"
    /\ sensor_states["047"].dilution_cycle_count = max_dilution_cycles

(***************************************************************************)
(* Direct calls of the threshold checks on a reading, as the unit tests    *)
(* make them: a reading is a dict in which any key may be missing.         *)
(***************************************************************************)
\* marks a key the reading does not have
Absent == -3

\* the values of a column of a reading: missing, just below and at the
\* normalization threshold, at and just above the trigger threshold, None
ValuesOf(key) ==
    CASE key \in {"co2", "tvoc", "humidity"} ->
           { Absent, NormThreshold(key) - 1, NormThreshold(key),
             TriggerThreshold(key), TriggerThreshold(key) + 1, None }
      [] key \in {"pm2_5", "pm10", "hcho"} ->
           { Absent, NormThreshold(key), TriggerThreshold(key) + 1 }
      [] key = "temperature" ->
           { Absent, None, temp_c_min - 1, temp_c_min, temp_c_max, temp_c_max + 1 }

ReadingKeys == { "co2", "tvoc", "pm2_5", "pm10", "hcho", "humidity", "temperature" }

\* the readings: every choice of a value or of no key, per column
Readings ==
    { [ k \in { x \in ReadingKeys : c[x] # Absent } |-> c[k] ] :
        c \in [ co2 : ValuesOf("co2"), tvoc : ValuesOf("tvoc"),
                pm2_5 : ValuesOf("pm2_5"), pm10 : ValuesOf("pm10"),
                hcho : ValuesOf("hcho"), humidity : ValuesOf("humidity"),
                temperature : ValuesOf("temperature") ] }

\* the state before a direct call of a check on a reading
InitChecks ==
    /\ pc = "check"
    /\ config = {}
    /\ max_dilution_cycles = 3
    /\ psi_thresholds = ConfiguredPsi
    /\ psi_data = {}
    /\ iaq_sensors = {"047"}
    /\ tables = "any"
    /\ minutes = MaxTicks
    /\ error = "none"
    /\ sensor_states = << >>
    /\ log_records = << >>
    /\ ts = None
    /\ pending = {}
    /\ sensor_row \in { { [ sensor_id |-> "047", cells |-> r ] } : r \in Readings }
    /\ vav_rows = {}
    /\ ahu_rows = {}
    /\ reasons_arg = << >>
    /\ first_violation = [ s \in Sensors |-> None ]
    /\ sustained = [ s \in Sensors |-> FALSE ]
    /\ solo_states = [ s \in Sensors |-> NewSensorState ]
    /\ solo_logs = [ s \in Sensors |-> << >> ]
    /\ result = None
    /\ readings = [ s \in Sensors |-> 0 ]

\* engine._check_iaq_triggers(sensor_data)
CallCheckTriggers ==
    /\ pc = "check"
    /\ LET r == _check_iaq_triggers(TheRow(sensor_row).cells)
       IN  /\ result' = r.reasons
           /\ error' = r.err
           /\ pc' = IF r.err = "none" THEN "triggers_returned" ELSE "triggers_raised"
    /\ UNCHANGED << config, max_dilution_cycles, psi_thresholds, psi_data,
                    iaq_sensors, tables, minutes, sensor_states, log_records, ts,
                    pending, sensor_row, vav_rows, ahu_rows, reasons_arg,
                    first_violation, sustained, solo_states, solo_logs,
                    readings >>

\* engine._check_for_normalization(sensor_data)
CallCheckNormalization ==
    /\ pc = "check"
    /\ LET r == _check_for_normalization(TheRow(sensor_row).cells)
       IN  /\ result' = (r = "True")
           /\ error' = IF r = "TypeError" THEN "TypeError" ELSE "none"
           /\ pc' = IF r = "TypeError" THEN "normalization_raised"
                    ELSE "normalization_returned"
    /\ UNCHANGED << config, max_dilution_cycles, psi_thresholds, psi_data,
                    iaq_sensors, tables, minutes, sensor_states, log_records, ts,
                    pending, sensor_row, vav_rows, ahu_rows, reasons_arg,
                    first_violation, sustained, solo_states, solo_logs,
                    readings >>

NextChecks == CallCheckTriggers \/ CallCheckNormalization

SpecChecks == InitChecks /\ [][NextChecks]_vars

\* the value of a column of the reading, sensor_default for an absent one
ValueOrDefault(cells, key) ==
    IF key \in DOMAIN cells /\ cells[key] # None THEN cells[key]
    ELSE sensor_reading_default

\* whether the reading violates the threshold of a metric
MetricViolated(cells, metric) ==
    CASE metric = "co2" ->
           ValueOrDefault(cells, "co2") > outdoor_co2_ppm + trig_co2_ppm_above_outdoor
      [] metric = "tvoc" -> ValueOrDefault(cells, "tvoc") > trig_tvoc_ug_m3
      [] metric = "pm2_5" -> ValueOrDefault(cells, "pm2_5") > trig_pm2_5_ug_m3
      [] metric = "pm10" -> ValueOrDefault(cells, "pm10") > trig_pm10_ug_m3
      [] metric = "hcho" -> ValueOrDefault(cells, "hcho") > trig_hcho_ug_m3
      [] metric = "rh" -> ValueOrDefault(cells, "humidity") > trig_rh_percent_max
      [] metric = "temp" ->
           /\ "temperature" \in DOMAIN cells
           /\ cells.temperature # None
           /\ (cells.temperature < temp_c_min \/ cells.temperature > temp_c_max)

\* C28: for every reading, _check_iaq_triggers returns exactly the metrics
\* whose threshold is violated, each once, in the order co2, tvoc, pm2_5,
\* pm10, hcho, rh, temp; the result is empty iff no threshold is violated.
C28_ReasonsAreTheViolations ==
    pc \in {"triggers_returned", "triggers_raised"}
      => /\ pc = "triggers_returned"
         /\ result = SelectSeq(<< "co2", "tvoc", "pm2_5", "pm10", "hcho", "rh", "temp" >>,
                               LAMBDA m : MetricViolated(TheRow(sensor_row).cells, m))

\* C29: the pollutant normalization predicate is true iff all five pollutant
\* readings (sensor_default for an absent one) are strictly below their
\* normalization thresholds (co2 against outdoor_co2 + normalization offset);
\* humidity and temperature play no part.
C29_NormalizationIffAllBelow ==
    pc \in {"normalization_returned", "normalization_raised"}
      => /\ pc = "normalization_returned"
         /\ result =
              ( /\ ValueOrDefault(TheRow(sensor_row).cells, "co2")
                     < outdoor_co2_ppm + norm_co2_ppm_above_outdoor
                /\ ValueOrDefault(TheRow(sensor_row).cells, "tvoc") < norm_tvoc_ug_m3
                /\ ValueOrDefault(TheRow(sensor_row).cells, "pm2_5") < norm_pm2_5_ug_m3
                /\ ValueOrDefault(TheRow(sensor_row).cells, "pm10") < norm_pm10_ug_m3
                /\ ValueOrDefault(TheRow(sensor_row).cells, "hcho") < norm_hcho_ug_m3 )

(***************************************************************************)
(* The filter gate under every configuration (under SpecConfig).           *)
(***************************************************************************)
\* filter checking is enabled in the configuration
FilterCheckEnabled ==
    /\ << "parameters" >> \notin config
    /\ << "parameters", "enable_bms_filter_check" >> \notin config

\* C30: at a timestamp the filter gate skips the sensors and appends exactly
\* one "BMS Filter Alarm" record iff filter checking is enabled, the AHU
\* table has a row for the timestamp, and the primary or the secondary
\* filter status is 1; in every other case (checking disabled or the flag
\* missing from the configuration, no AHU row, both statuses clear) it
\* appends nothing and the sensors are evaluated.
C30_FilterAlarmIff ==
    [][ ts' # ts
        => /\ AppendsOnly
           /\ IF /\ FilterCheckEnabled
                 /\ \E r \in ahu_rows' : r.pri_filt_sts = 1 \/ r.sec_fil_sts = 1
              THEN /\ Len(Appended) = 1
                   /\ Appended[1].event = "BMS Filter Alarm"
                   /\ pending' = {}
              ELSE /\ Appended = << >>
                   /\ pending' # {} ]_vars

\* with checking disabled a tripped filter status raised no alarm and the
\* sensor's row was evaluated
C30_Witness ==
    /\ pc = "loop"
    /\ ~FilterCheckEnabled
    /\ Tripped(ahu_rows)
    /\ pending # {}
    /\ AlarmCount(log_records) = 0


(***************************************************************************)
(* The comfort resolvers, as the run invokes them.                         *)
(***************************************************************************)
\* the step runs the resolver of the branch for sensor s below the limit
BranchRan(s, branch) ==
    /\ ResolverRan(s)
    /\ NamedBranch(Appended[1]) = branch

\* C31: invoked below the cycle limit for a sensor with a VAV mapping and a
\* VAV row at the timestamp, Branch B appends "Cooling Cycle Started" and
\* then exactly one record: "VAV Action (Cooling)" with
\* branch_b.vav_flow_increase_pct iff the flow setpoint is strictly below
\* its maximum, otherwise "CHW Valve Action (Cooling)" with
\* branch_b.chw_valve_increase_pct.
C31_BranchBChoosesByMaxFlow ==
    [][ \A s \in DOMAIN sensor_states :
          ( BranchRan(s, "B") /\ Mapped(s) /\ vav_rows # {} )
            => /\ Len(Appended) = 3
               /\ Appended[2].event = "Cooling Cycle Started"
               /\ IF \E r \in vav_rows : r.supflosp < r.cmaxflo
                  THEN /\ Appended[3].event = "VAV Action (Cooling)"
                       /\ Appended[3].details.args = << branch_b_vav_flow_increase_pct >>
                  ELSE /\ Appended[3].event = "CHW Valve Action (Cooling)"
                       /\ Appended[3].details.args = << branch_b_chw_valve_increase_pct >> ]_vars

\* Branch B found the flow setpoint at its maximum and moved the valve
C31_Witness ==
    /\ Len(log_records) >= 3
    /\ log_records[Len(log_records)].event = "CHW Valve Action (Cooling)"
    /\ log_records[Len(log_records) - 1].event = "Cooling Cycle Started"
    /\ log_records[Len(log_records)].sensor_id = "047"

\* C32: invoked below the cycle limit for a sensor with a VAV mapping and a
\* VAV row at the timestamp, Branch C appends "Warming Cycle Started" and
\* then exactly one record: "VAV Action (Warming)" with
\* branch_c.vav_flow_decrease_pct iff the flow setpoint is strictly above
\* its configured minimum, otherwise "CHW Valve Action (Warming)" with
\* branch_c.chw_valve_decrease_pct.
C32_BranchCChoosesByMinFlow ==
    [][ \A s \in DOMAIN sensor_states :
          ( BranchRan(s, "C") /\ Mapped(s) /\ vav_rows # {} )
            => /\ Len(Appended) = 3
               /\ Appended[2].event = "Warming Cycle Started"
               /\ IF \E r \in vav_rows : r.supflosp > r.ocmnc_sp
                  THEN /\ Appended[3].event = "VAV Action (Warming)"
                       /\ Appended[3].details.args = << branch_c_vav_flow_decrease_pct >>
                  ELSE /\ Appended[3].event = "CHW Valve Action (Warming)"
                       /\ Appended[3].details.args = << branch_c_chw_valve_decrease_pct >> ]_vars

\* Branch C found the flow setpoint at its minimum and moved the valve
C32_Witness ==
    /\ Len(log_records) >= 3
    /\ log_records[Len(log_records)].event = "CHW Valve Action (Warming)"
    /\ log_records[Len(log_records) - 1].event = "Warming Cycle Started"
    /\ log_records[Len(log_records)].sensor_id = "047"

\* C33: invoked below the cycle limit, Branch D appends "Dehumidification
\* Cycle Started" and then "CHW Valve Action (Dehumidifying)" with
\* branch_d.chw_valve_increase_pct for every sensor, mapped to a VAV or not,
\* with or without a VAV or AHU row at the timestamp, and nothing else.
C33_BranchDUnconditional ==
    [][ \A s \in DOMAIN sensor_states :
          BranchRan(s, "D")
            => /\ Len(Appended) = 3
               /\ Appended[2].event = "Dehumidification Cycle Started"
               /\ Appended[3].event = "CHW Valve Action (Dehumidifying)"
               /\ Appended[3].details.args = << branch_d_chw_valve_increase_pct >>
               /\ Appended[2].sensor_id = s
               /\ Appended[3].sensor_id = s ]_vars

\* Branch D moved the valve for the sensor that has no VAV mapping
C33_Witness ==
    /\ Len(log_records) >= 3
    /\ log_records[Len(log_records)].event = "CHW Valve Action (Dehumidifying)"
    /\ log_records[Len(log_records)].sensor_id = "099"
    /\ "099" \notin DOMAIN ConfiguredVavMap


(***************************************************************************)
(* Runs long enough for a sensor to be escalated twice.                    *)
(***************************************************************************)
EpisodeTicks == 8

EpisodeLimits == {0, 1, 3}

\* a run of an engine with the complete configuration and a cycle limit of
\* 0, 1 or 3, on tables of kind "episodes" of the mapped or the unmapped
\* sensor
InitEpisodes ==
    InitWith({ {} }, EpisodeLimits, { {} }, { {"047"}, {"099"} }, {"episodes"},
             {EpisodeTicks})

SpecEpisodes == InitEpisodes /\ [][Next]_vars


\* the positions of the log at which sensor s was routed to a branch
RoutingsOf(s) ==
    { i \in DOMAIN log_records :
        /\ log_records[i].sensor_id = s
        /\ log_records[i].event = "Branch Routing" }

\* C35: through run_simulation every sensor's dilution_cycle_count is 0 or 1
\* in every reachable state, whatever max_dilution_cycles is.
C35_CountIsZeroOrOne ==
    \A s \in DOMAIN sensor_states : sensor_states[s].dilution_cycle_count \in {0, 1}

\* a sensor was escalated twice with a cycle limit of 3 and its counter is 1
C35_Witness ==
    /\ max_dilution_cycles = 3
    /\ \E s \in DOMAIN sensor_states :
         /\ Cardinality(RoutingsOf(s)) = 2
         /\ sensor_states[s].dilution_cycle_count = 1

\* C36: with max_dilution_cycles >= 1, run_simulation never appends a
\* "Failed" record (Dilution, Cooling, Warming or Dehumidification Failed).
C36_NoFailedRecord ==
    max_dilution_cycles >= 1
      => \A i \in DOMAIN log_records : log_records[i].event \notin FailedEvents

\* with a cycle limit of 1 a sensor was escalated twice and the run ended
\* without a Failed record
C36_Witness ==
    /\ max_dilution_cycles = 1
    /\ pc = "done"
    /\ \E s \in DOMAIN sensor_states : Cardinality(RoutingsOf(s)) = 2
    /\ \A i \in DOMAIN log_records : log_records[i].event \notin FailedEvents


(***************************************************************************)
(* The alert-state map (under SpecPair).                                   *)
(***************************************************************************)
\* C34: the alert-state map only grows: it is empty before the run; an entry
\* is created at the step that evaluates the first reading of the sensor,
\* from is_triggered = false, alert_start_time = none, has_fired = false,
\* dilution_cycle_count = 0 and alert_type = none (after that step the entry
\* is that state, or the ALERTING state the reading's violation gives it);
\* an entry is never removed; every evaluated sensor has an entry.
C34_StateMapOnlyGrows ==
    [][ /\ pc \in {"new", "ready"} => DOMAIN sensor_states = {}
        /\ DOMAIN sensor_states \subseteq DOMAIN sensor_states'
        /\ \A s \in Sensors : EvaluationStep(s) => s \in DOMAIN sensor_states'
        /\ \A s \in DOMAIN sensor_states' \ DOMAIN sensor_states :
             /\ EvaluationStep(s)
             /\ sensor_states'[s].has_fired = FALSE
             /\ sensor_states'[s].dilution_cycle_count = 0
             /\ IF sensor_states'[s].is_triggered
                THEN /\ sensor_states'[s].alert_start_time = ts
                     /\ ViolatesTrigger(Cells)
                ELSE /\ sensor_states'[s].alert_start_time = None
                     /\ sensor_states'[s].alert_type = "None" ]_vars

\* the map holds an entry of one sensor while the other sensor, which had no
\* row so far, has none
C34_Witness ==
    /\ pc = "loop"
    /\ pending = {}
    /\ DOMAIN sensor_states = {"099"}
    /\ sensor_states["099"] =
         [ is_triggered |-> FALSE, alert_start_time |-> None, has_fired |-> FALSE,
           dilution_cycle_count |-> 0, alert_type |-> "None" ]


(***************************************************************************)
(* The router as the simulation loop invokes it (under Spec).              *)
(***************************************************************************)
\* C37: whenever the simulation loop invokes the router, it logs a "Branch
\* Routing" record, and with no pollutant among the violations of the row the
\* branch is B, C or D; no step of a run appends a "Conflict Alert" record.
C37_ConflictUnreachable ==
    [][ /\ AppendsOnly
        /\ \A k \in DOMAIN Appended : Appended[k].event # "Conflict Alert"
        /\ \A s \in DOMAIN sensor_states :
             EscalationStep(s)
               => /\ Appended[1].event = "Branch Routing"
                  /\ Appended[1].reasons # Str(<< >>)
                  /\ ~PollutantViolated(Cells)
                       => NamedBranch(Appended[1]) \in {"B", "C", "D"} ]_vars

\* a row with the humidity at the maximum and the temperature above the
\* band, whose only reason is temp, was routed to Branch D
C37_Witness ==
    /\ Len(log_records) >= 3
    /\ log_records[Len(log_records) - 2].event = "Branch Routing"
    /\ log_records[Len(log_records) - 2].reasons = Str(<< "temp" >>)
    /\ NamedBranch(log_records[Len(log_records) - 2]) = "D"
    /\ log_records[Len(log_records)].event = "CHW Valve Action (Dehumidifying)"


(***************************************************************************)
(* Persistence over timestamps at which the sensor is not evaluated.       *)
(***************************************************************************)
\* the trigger check returns reasons for the row: the sensor is violating
Violating(cells) ==
    /\ _check_iaq_triggers(cells).err = "none"
    /\ _check_iaq_triggers(cells).reasons # << >>

\* the row given to the loop body is the second one of sensor s's present
\* alert, the first being the one that triggered it at alert_start_time, and
\* it is violating at least persistence_minutes later
SecondReadingAfterWindow(s) ==
    /\ EvaluationStep(s)
    /\ s \in DOMAIN sensor_states
    /\ sensor_states[s].is_triggered
    /\ readings[s] = 1
    /\ ts - sensor_states[s].alert_start_time >= persistence_minutes
    /\ Violating(Cells)

\* C38 as stated: if a sensor is violating at t0 and at the next timestamp t
\* at which it is evaluated, with t - t0 >= persistence_minutes, the router
\* is invoked at t.
C38_TwoReadingsEscalate ==
    [][ \A s \in Sensors : SecondReadingAfterWindow(s) => EscalationStep(s) ]_vars

\* C38 amended: the same, unless the alert was triggered by a pollutant and
\* at t all five pollutants are strictly below their normalization
\* thresholds: then the tick ends in a Normalization and the router is not
\* invoked.
C38_TwoReadingsEscalateUnlessNormalized ==
    [][ \A s \in Sensors :
          SecondReadingAfterWindow(s)
            => IF /\ sensor_states[s].alert_type = "pollutant"
                  /\ RecoveryPredicate("pollutant", Cells)
               THEN NormalizedAlone(s) /\ ~EscalationStep(s)
               ELSE EscalationStep(s) ]_vars

\* the router was invoked for a sensor persistence_minutes or more after its
\* alert began, and at every minute in between, one at least, a filter
\* alarm was active: the sensor was evaluated twice
C38_Witness ==
    \E s \in DOMAIN sensor_states :
        /\ sensor_states[s].is_triggered
        /\ sensor_states[s].has_fired
        /\ ts - sensor_states[s].alert_start_time >= persistence_minutes
        /\ ts - sensor_states[s].alert_start_time >= 2
        /\ \E i \in RoutingsOf(s) : log_records[i].timestamp = ts
        /\ \A m \in (sensor_states[s].alert_start_time + 1)..(ts - 1) :
             \E i \in DOMAIN log_records :
                 /\ log_records[i].event = "BMS Filter Alarm"
                 /\ log_records[i].timestamp = m


(***************************************************************************)
(* The alert type after an escalation (under SpecEpisodes, whose rows have *)
(* the tvoc above the trigger threshold at minute 0 and at or above the    *)
(* normalization threshold at every later minute).                         *)
(***************************************************************************)
ComfortTypeOfBranch(branch) ==
    CASE branch = "B" -> "comfort_hot"
      [] branch = "C" -> "comfort_cold"
      [] branch = "D" -> "comfort_humid"
      [] OTHER -> "pollutant"

\* C39: the router writes the alert_type of the branch it chose from the
\* reasons of the escalation tick over the one recorded at trigger time, and
\* the recovery check afterwards uses it: an alert that triggered as
\* pollutant and escalated on comfort-only reasons is normalized exactly when
\* the comfort predicate of that type holds, even while a pollutant reading
\* is at or above its normalization threshold.
C39_RecoveryUsesRoutedType ==
    [][ \A s \in DOMAIN sensor_states :
          /\ ( EscalationStep(s) /\ Appended[1].event = "Branch Routing" )
               => sensor_states'[s].alert_type =
                    ComfortTypeOfBranch(NamedBranch(Appended[1]))
          /\ ( /\ EvaluationStep(s)
               /\ sensor_states[s].is_triggered
               /\ sensor_states[s].has_fired
               /\ sensor_states[s].alert_type \in ComfortSubTypes )
               => IF RecoveryPredicate(sensor_states[s].alert_type, Cells)
                  THEN /\ NormalizedAlone(s)
                       /\ Cleared(s)
                       /\ Appended[1].details.text =
                            NormalizationText(sensor_states[s].alert_type)
                  ELSE \A k \in DOMAIN Appended : Appended[k].event # "Normalization" ]_vars

\* an alert that began at minute 0, where the tvoc is above its trigger
\* threshold, was routed to Branch B on the reason temp alone and then
\* normalized as a comfort alert, the tvoc never below its normalization
\* threshold
C39_Witness ==
    \E i, j \in DOMAIN log_records :
        /\ i < j
        /\ log_records[i].event = "Branch Routing"
        /\ log_records[i].timestamp = persistence_minutes
        /\ log_records[i].reasons = Str(<< "temp" >>)
        /\ NamedBranch(log_records[i]) = "B"
        /\ log_records[j].event = "Normalization"
        /\ log_records[j].sensor_id = log_records[i].sensor_id
        /\ log_records[j].details.text = "Comfort Restored! Temperature is normal."
        /\ \A k \in (i + 1)..(j - 1) : log_records[k].event # "Branch Routing"

\* C40: in every reachable state of a run, for every sensor: is_triggered =
\* false implies alert_start_time = none and has_fired = false; is_triggered
\* = true implies alert_start_time is a timestamp not later than the
\* timestamp being processed; has_fired = true implies is_triggered = true.
C40_FlagsConsistent ==
    \A s \in DOMAIN sensor_states :
        /\ ~sensor_states[s].is_triggered
             => /\ sensor_states[s].alert_start_time = None
                /\ ~sensor_states[s].has_fired
        /\ sensor_states[s].is_triggered
             => /\ sensor_states[s].alert_start_time # None
                /\ sensor_states[s].alert_start_time >= 0
                /\ sensor_states[s].alert_start_time <= ts
        /\ sensor_states[s].has_fired => sensor_states[s].is_triggered

\* a fired alert left the ALERTING state without a Normalization record and
\* its flags were reset with it
C40_Witness ==
    \E s \in DOMAIN sensor_states :
        /\ RoutingsOf(s) # {}
        /\ NormalizationRecords(s) = {}
        /\ ~sensor_states[s].is_triggered
        /\ sensor_states[s].alert_start_time = None
        /\ ~sensor_states[s].has_fired
        /\ sensor_states[s].dilution_cycle_count = 1
====
